---- MODULE Spec2Model ----
(***************************************************************************)
(* State-machine model of the DevLogger core (src/src/core/logger.ts):     *)
(* the LoggerCore event store with FIFO rotation, the subscriber fan-out   *)
(* (including re-entrant log() calls made from inside a subscriber), the   *)
(* value normalizer (safeClone) and the LogSpan lifecycle.                 *)
(*                                                                         *)
(* JavaScript is single threaded: while a notify() loop is running, the    *)
(* only code that runs is the subscriber callback it is calling.  The call *)
(* stack of running notify() loops is the variable `stack`; every public   *)
(* operation is enabled only when the stack is empty, and a callback acts  *)
(* only on the loop on top of the stack.                                   *)
(***************************************************************************)
EXTENDS Integers, Sequences, FiniteSets, TLC

(* ------------------------------ bounds --------------------------------- *)

\* number of log ids generateLogId() may hand out in one behaviour
MaxEvents == 3
\* largest maxLogs value passed to configure()
MaxCap == 2
\* number of distinct subscriber callbacks
MaxFns == 2
\* number of spans generateSpanId() may hand out in one behaviour
MaxSpans == 1
\* spans of one family (a root span and its descendants)
MaxNested == 2
\* intercepted requests
MaxRequests == 1
\* last value of the wall clock Date.now()
MaxTime == 2
\* longest foreign array passed to importLogs()
MaxImport == 2
\* number of ContextLogger objects alive at a time
MaxBound == 1
\* number of subscribe() calls per callback whose tokens are told apart
MaxRegs == 2
\* longest entry list of the subscriber Set while notify() loops are running
MaxEntries == 4
\* largest number of events a storage has room for
MaxRoom == 3
\* longest array found under the storage key by a reader
MaxStored == 2

(* --------------------------- program constants -------------------------- *)

Levels == {"debug", "info", "warn", "error"}

LOG_LEVEL_VALUES == [debug |-> 0, info |-> 1, warn |-> 2, error |-> 3]

\* DEFAULT_CONFIG.maxLogs is 1000 in the source; the model starts from the
\* largest cap it explores, so that the initial cap is never the binding one.
DEFAULT_CONFIG == [maxLogs |-> MaxCap, minLevel |-> "debug", enabled |-> TRUE]

\* persistence.ts DEFAULT_CONFIG; maxPersisted is 500 in the source, the
\* model starts from the largest store it explores
PERSISTENCE_DEFAULT_CONFIG == [storage |-> "session", maxPersisted |-> MaxCap]

\* sessionStorage and localStorage
Storages == {"session", "local"}

Fns == 1..MaxFns
\* handleNewLog of persistence.ts as an entry of LoggerCore.subscribers
PersistFn == MaxFns + 1
SpanFns == {1}
ForeignIds == {-1, -2}

\* "no span": LogEvent.spanId / SpanEvent.parentId undefined
NoSpan == 0
\* SpanEvent.endTime / duration undefined
Undefined == -1

VARIABLES
  config,          \* LoggerCore.config
  logs,            \* LoggerCore.logs
  nextId,          \* next id generateLogId() returns
  entries,         \* LoggerCore.subscribers: the Set's entry list, 0 = deleted entry
  tokens,          \* callbacks for which subscribe() has returned an Unsubscribe
  stack,           \* running notify() loops, innermost last
  received,        \* per callback: ids of the events it was invoked with, in order
  spanObj,         \* the SpanEvent objects, indexed by span id
  ended,           \* LogSpan._ended of the handle of each span
  spansMap,        \* keys of LoggerCore.spans
  spanSubscribers, \* LoggerCore.spanSubscribers
  spanNotes,       \* notifySpan() calls so far: <<span id, status, recipients>>
  now,             \* Date.now()
  accepted,        \* ids appended by store() since the store was last empty
  epochOK,         \* only log() touched the store since it was last empty
  lastOp,          \* the operation the last step performed
  globalContext,   \* LoggerCore.globalContext
  sessionId,       \* LoggerCore.sessionId
  bound,           \* contexts of the ContextLogger objects created so far
  lastContext,     \* context of the ContextLogger that logged last
  lastImport,      \* argument of the last importLogs() call
  lastExport,      \* the last exportLogs() call: its options and the events
                   \* its result holds
  regs,            \* per callback: subscribe() calls whose own token was not
                   \* invoked yet (live) and tokens invoked already (spent)
  isEnabled,       \* persistence.ts isEnabled
  pconfig,         \* persistence.ts config
  pendingLogs,     \* persistence.ts pendingLogs
  debounceTimer,   \* persistence.ts debounceTimer is not null
  wasUncleanShutdown,    \* persistence.ts wasUncleanShutdown
  unsubscribeFromLogger, \* persistence.ts unsubscribeFromLogger is not null
  unloadHooks,     \* handleBeforeUnload listens to beforeunload and pagehide
  activeFlag,      \* per storage: devlogger_session_active is 'active'
  persisted,       \* per storage: the array under devlogger_persisted_logs
  markerAt,        \* the storage the running session's enable() wrote its
                   \* marker to, "none" before that
  timers,          \* setTimeout() callbacks armed and neither run nor cleared
  burst,           \* handleNewLog() calls since a timer last expired or
                   \* was cleared for good
  lastWrite,       \* the last persistLogs() call: the arrays handed to
                   \* setItem() in order, whether the last one was stored,
                   \* and the handleNewLog() calls it answers
  lastRead,        \* the last loadPersistedLogs() call: the list it returned
                   \* and the value its caller returned
  requests,        \* intercepted fetch / XHR requests: api, span, result
  isInstalled,     \* ErrorCapture isInstalled
  captureConfig,   \* ErrorCapture config
  originalOnError, \* ErrorCapture originalOnError
  onerror,         \* window.onerror
  lastError,       \* the last uncaught error: handlers called and the value
                   \* window.onerror returned
  peer             \* a second session on the same origin: its persistence
                   \* state

vars == <<config, logs, nextId, entries, tokens, stack, received, spanObj,
          ended, spansMap, spanSubscribers, spanNotes, now, accepted,
          epochOK, lastOp, globalContext, sessionId, bound, lastContext,
          lastImport, lastExport, regs, isEnabled, pconfig, pendingLogs,
          debounceTimer,
          wasUncleanShutdown, unsubscribeFromLogger, unloadHooks, activeFlag,
          persisted, markerAt, timers, burst, lastWrite,
          lastRead, requests, isInstalled, captureConfig, originalOnError,
          onerror, lastError, peer>>

storeVars == <<config, logs, nextId, accepted, epochOK>>
subVars == <<entries, tokens>>
spanVars == <<spanObj, ended, spansMap, spanNotes>>
ctxVars == <<globalContext, sessionId, bound, lastContext>>
\* the module state of persistence.ts
bridgeVars == <<isEnabled, pconfig, pendingLogs, debounceTimer,
                wasUncleanShutdown, unsubscribeFromLogger, unloadHooks,
                markerAt, timers>>
\* sessionStorage and localStorage
storageVars == <<activeFlag, persisted>>
\* what the last write and the last read of the durable snapshot did
ioVars == <<burst, lastWrite, lastRead>>
persistVars == <<bridgeVars, storageVars, ioVars>>
\* network capture, error capture and the other session
pageVars == <<requests, isInstalled, captureConfig, originalOnError, onerror,
              lastError, peer>>
\* state outside the store, the registries and the spans
extVars == <<ctxVars, lastImport, lastExport, pageVars, regs, persistVars>>

(* ------------------------------ helpers -------------------------------- *)

Op(op, level, span, fn, out) ==
  [op |-> op, level |-> level, span |-> span, fn |-> fn, out |-> out]

Ids(ls) == {ls[i].id : i \in DOMAIN ls}

IdSeq(ls) == [i \in DOMAIN ls |-> ls[i].id]

Count(s, x) == Cardinality({i \in DOMAIN s : s[i] = x})

\* the last n elements of s (all of s when n >= Len(s))
LastN(s, n) == IF Len(s) <= n THEN s ELSE SubSeq(s, Len(s) - n + 1, Len(s))

Min(a, b) == IF a <= b THEN a ELSE b

\* the options of an exportLogs() call: lastMs (Undefined when omitted), and
\* levels and search, each given or omitted
ExportOptions(lastMs, levelsGiven, levels, searchGiven, search) ==
  [lastMs |-> lastMs,
   levels |-> [given |-> levelsGiven, list |-> levels],
   search |-> [given |-> searchGiven, text |-> search]]

\* no exportLogs() call was made yet
NoExport ==
  [options |-> ExportOptions(-1, FALSE, <<>>, FALSE, <<>>), out |-> <<>>,
   threw |-> FALSE]

(* ------------------------------ contexts -------------------------------- *)

\* A LogContext argument: undefined, or an object given by its key/value
\* pairs.  Every place of the source that keeps a context copies it with an
\* object spread, so a context is modelled by its value.
UndefinedContext == [defined |-> FALSE, kv |-> {}]
Object(kv) == [defined |-> TRUE, kv |-> kv]

\* a spread in which the first object wins on a common key
SpreadFirstWins(a, b) == a \cup {p \in b : \A q \in a : q[1] # p[1]}

\* { ...a, ...b } on the key/value pairs: b wins on a common key
Spread(a, b) == b \cup {p \in a : \A q \in b : q[1] # p[1]}

\* a merge in which the global context wins on a common key
mergedContextGlobalWins(global, context) ==
  IF global.kv # {} \/ context.defined
  THEN Object(Spread(context.kv, global.kv))
  ELSE UndefinedContext

\* mergedContext of LoggerCore.log
mergedContext(global, context) ==
  IF global.kv # {} \/ context.defined
  THEN Object(Spread(global.kv, context.kv))
  ELSE UndefinedContext

\* the context objects the callers pass in
ContextInputs == {Object({<<"a", 1>>}), Object({<<"a", 2>>, <<"b", 2>>})}

(* ------------------------- store and rotation --------------------------- *)

\* a rotation that never evicts the newest event
RotateKeepsNewest(ls, cap) == IF cap = 0 THEN LastN(ls, 1) ELSE LastN(ls, cap)

\* while (this.logs.length > this.config.maxLogs) this.logs.shift();
RECURSIVE Rotate(_, _)
Rotate(ls, cap) == IF Len(ls) > cap THEN Rotate(Tail(ls), cap) ELSE ls

\* a store that refuses the new event when it is full
StoreDropNewest(ls, ev, cap) == IF Len(ls) >= cap THEN ls ELSE Append(ls, ev)

\* LoggerCore.store: push, then FIFO rotation
Store(ls, ev, cap) == Rotate(Append(ls, ev), cap)

\* a gate that forgets the enabled switch
PassesGateLevelOnly(cfg, level) ==
  ~(LOG_LEVEL_VALUES[level] < LOG_LEVEL_VALUES[cfg.minLevel])

\* the gate at the head of LoggerCore.log
PassesGate(cfg, level) ==
  /\ cfg.enabled
  /\ ~(LOG_LEVEL_VALUES[level] < LOG_LEVEL_VALUES[cfg.minLevel])

(* ------------------------- subscriber registry -------------------------- *)

\* Set.prototype.add: an element already present keeps its place
SetAdd(es, f) == IF \E i \in DOMAIN es : es[i] = f THEN es ELSE Append(es, f)

\* a registry kept in an array: deleting shifts the later entries down
SetDeleteShifting(es, f) == SelectSeq(es, LAMBDA x : x # f)

\* Set.prototype.delete: the entry is emptied, later entries keep their index
SetDelete(es, f) == [i \in DOMAIN es |-> IF es[i] = f THEN 0 ELSE es[i]]

\* with no iterator alive the emptied entries are unobservable
Compact(es) == SelectSeq(es, LAMBDA x : x # 0)

Alive(es) == {es[i] : i \in DOMAIN es} \ {0}

\* the Set iterator: index of the first live entry at or after pos, 0 if none
NextAlive(es, pos) ==
  IF \E i \in DOMAIN es : i >= pos /\ es[i] # 0
  THEN CHOOSE i \in DOMAIN es :
         /\ i >= pos /\ es[i] # 0
         /\ \A j \in DOMAIN es : (j >= pos /\ es[j] # 0) => i <= j
  ELSE 0

\* A running notify(event): pos is the index the Set iterator looks at next,
\* cont the span LogSpan.fail finishes when the enclosing log() has returned.
\* reg (the callbacks registered when the loop began), threw (the callbacks
\* that threw in this loop) and gone (the callbacks unsubscribed while the
\* loop was running) are kept for the properties only.
Frame(ev, cont) ==
  [ev |-> ev, pos |-> 1, cont |-> cont, reg |-> Alive(entries), threw |-> {},
   gone |-> {}]

\* One element of the JSON array under STORAGE_KEY as JSON.parse() returns
\* it: null, a primitive or an object, the typeof of the four fields the
\* reader inspects, and the event it carries
Item(kind, id, timestamp, level, message, ev) ==
  [kind |-> kind, id |-> id, timestamp |-> timestamp, level |-> level,
   message |-> message, ev |-> ev]

\* JSON.stringify() of a stored LogEvent followed by JSON.parse()
Json(ev) == Item("object", "string", "number", "string", "string", ev)

\* The value under STORAGE_KEY: absent ("none"), a string JSON.parse()
\* rejects ("garbage"), JSON that is no array ("object"), or an array
Payload(kind, items) == [kind |-> kind, items |-> items]
NoPayload == Payload("none", <<>>)

\* JSON.stringify(array) as setItem() stores it
Serialized(ls) == Payload("array", [i \in DOMAIN ls |-> Json(ls[i])])

\* persistence.ts as loaded, with both storages empty
InitPersistence ==
  /\ isEnabled = FALSE
  /\ pconfig = PERSISTENCE_DEFAULT_CONFIG
  /\ pendingLogs = <<>>
  /\ debounceTimer = FALSE
  /\ wasUncleanShutdown = FALSE
  /\ unsubscribeFromLogger = FALSE
  /\ unloadHooks = FALSE
  /\ activeFlag = [st \in Storages |-> FALSE]
  /\ persisted = [st \in Storages |-> NoPayload]
  /\ markerAt = "none"
  /\ timers = 0
  /\ burst = 0
  /\ lastWrite = [tried |-> <<>>, ok |-> FALSE, burst |-> 0]
  /\ lastRead = [logs |-> <<>>, returned |-> 0]

\* ErrorCapture DEFAULT_CONFIG
CAPTURE_DEFAULT_CONFIG == [captureErrors |-> TRUE]

\* nothing intercepted, ErrorCapture as loaded, no window.onerror, and the
\* other session not started
InitPage ==
  /\ requests = <<>>
  /\ isInstalled = FALSE
  /\ captureConfig = CAPTURE_DEFAULT_CONFIG
  /\ originalOnError = "null"
  /\ onerror = "null"
  /\ lastError = [logged |-> 0, chained |-> 0, returned |-> FALSE]
  /\ peer = [isEnabled |-> FALSE, wasUncleanShutdown |-> FALSE]

Init ==
  /\ config = DEFAULT_CONFIG
  /\ logs = <<>>
  /\ nextId = 1
  /\ entries = <<>>
  /\ tokens = {}
  /\ stack = <<>>
  /\ received = [f \in Fns |-> <<>>]
  /\ spanObj = <<>>
  /\ ended = <<>>
  /\ spansMap = {}
  /\ spanSubscribers = {}
  /\ spanNotes = <<>>
  /\ now = 0
  /\ accepted = <<>>
  /\ epochOK = TRUE
  /\ lastOp = Op("init", "", NoSpan, 0, "")
  /\ globalContext = Object({})
  /\ sessionId = "session"
  /\ bound = {}
  /\ lastContext = UndefinedContext
  /\ lastImport = <<>>
  /\ lastExport = NoExport
  /\ regs = [f \in Fns |-> [live |-> 0, spent |-> 0]]
  /\ InitPersistence
  /\ InitPage

(* --------------------------- value normalizer --------------------------- *)

\* A JavaScript value handed to log(): a primitive, an Error, a Date (n = 1
\* when its time value is valid, 0 for an Invalid Date), a RegExp, or a
\* reference to the array or plain object n of the heap.
V(t, n) == [t |-> t, n |-> n]

Prim == V("prim", 0)
\* the string 'Bc' and the bigint 10n
TextValue == V("prim", 1)
BigIntValue == V("prim", 2)
\* what a normalized primitive is: a number, the string or the bigint
PrimitiveOf(value) ==
  CASE value.n = 1 -> "string" [] value.n = 2 -> "bigint" [] OTHER -> ""
ErrorObj == V("error", 0)
ValidDate == V("date", 1)
InvalidDate == V("date", 0)
RegExpObj == V("regexp", 0)
Ref(n) == V("ref", n)

\* an own enumerable property; throws = reading it runs a getter that throws
Field(key, throws, val) == [key |-> key, throws |-> throws, val |-> val]

\* The objects the payloads refer to.
\*   1  { a: 1 }
\*   2  { get throwingGetter() { throw }, normalProp: 'value' }
\*   3  [ new Date(NaN) ]
\*   4  { d: new Date(NaN) }
\*   5  { a: 1, self: <5> }
\*   6  { x: <1>, y: <1> }
Heap ==
  <<[kind |-> "obj", fields |-> <<Field("a", FALSE, Prim)>>],
    [kind |-> "obj", fields |-> <<Field("throwingGetter", TRUE, Prim),
                                  Field("normalProp", FALSE, Prim)>>],
    [kind |-> "arr", fields |-> <<Field("0", FALSE, InvalidDate)>>],
    [kind |-> "obj", fields |-> <<Field("d", FALSE, InvalidDate)>>],
    [kind |-> "obj", fields |-> <<Field("a", FALSE, Prim),
                                  Field("self", FALSE, Ref(5))>>],
    [kind |-> "obj", fields |-> <<Field("x", FALSE, Ref(1)),
                                  Field("y", FALSE, Ref(1))>>]>>

\* A normalized value: t is "prim", "tagged" (s = the __type), "sentinel"
\* (s = the sentinel string), "arr" or "obj" (kids = the cloned members).
Out(t, s, kids) == [t |-> t, s |-> s, kids |-> kids]

\* the result of a call: the value returned, the WeakSet afterwards, and
\* whether the call ended by throwing instead of returning
Returned(out, seen) == [out |-> out, seen |-> seen, threw |-> FALSE]
Thrown(seen) == [out |-> Out("none", "", <<>>), seen |-> seen, threw |-> TRUE]

RECURSIVE safeClone(_, _)
RECURSIVE CloneMembers(_, _, _, _)

\* the members of an array (value.map) or of a plain object (the for loop
\* over Object.keys), cloned left to right with the one WeakSet
CloneMembers(fields, i, seen, acc) ==
  IF i > Len(fields) THEN [kids |-> acc, seen |-> seen, threw |-> FALSE]
  ELSE IF fields[i].throws THEN [kids |-> acc, seen |-> seen, threw |-> TRUE]
  ELSE LET r == safeClone(fields[i].val, seen)
       IN IF r.threw THEN [kids |-> acc, seen |-> r.seen, threw |-> TRUE]
          ELSE CloneMembers(fields, i + 1, r.seen,
                            Append(acc, [key |-> fields[i].key, val |-> r.out]))

\* LoggerCore.safeClone(value, seen)
safeClone(value, seen) ==
  CASE value.t = "prim" -> Returned(Out("prim", PrimitiveOf(value), <<>>), seen)
    [] value.t = "error" -> Returned(Out("tagged", "Error", <<>>), seen)
    [] value.t = "date" ->
         \* value.toISOString() throws a RangeError on an Invalid Date
         IF value.n = 1 THEN Returned(Out("tagged", "Date", <<>>), seen)
         ELSE Thrown(seen)
    [] value.t = "regexp" -> Returned(Out("tagged", "RegExp", <<>>), seen)
    [] value.t = "ref" ->
         IF value.n \in seen
         THEN Returned(Out("sentinel", "[Circular Reference]", <<>>), seen)
         ELSE LET r == CloneMembers(Heap[value.n].fields, 1,
                                    seen \cup {value.n}, <<>>)
              IN IF Heap[value.n].kind = "arr"
                 THEN \* value.map(...) is outside the try block
                      IF r.threw THEN Thrown(r.seen)
                      ELSE Returned(Out("arr", "", r.kids), r.seen)
                 ELSE \* try { ... } catch { return '[Uncloneable Object]' }
                      IF r.threw
                      THEN Returned(Out("sentinel", "[Uncloneable Object]", <<>>),
                                    r.seen)
                      ELSE Returned(Out("obj", "", r.kids), r.seen)

RECURSIVE CloneItems(_, _, _)
CloneItems(data, i, acc) ==
  IF i > Len(data) THEN [out |-> acc, threw |-> FALSE]
  ELSE LET r == safeClone(data[i], {})
       IN IF r.threw THEN [out |-> acc, threw |-> TRUE]
          ELSE CloneItems(data, i + 1, Append(acc, r.out))

\* LoggerCore.safeCloneData: data.map((item) => this.safeClone(item)), every
\* item with a WeakSet of its own
safeCloneData(data) == CloneItems(data, 1, <<>>)

\* A message argument: a string, or an object whose toString() throws
StringMessage == [t |-> "string", s |-> "m"]
HostileMessage == [t |-> "object", s |-> ""]

\* String(message)
ToStringJS(message) ==
  IF message.t = "string" THEN [out |-> message.s, threw |-> FALSE]
  ELSE [out |-> "", threw |-> TRUE]

(* ----------------------------- LoggerCore.log --------------------------- *)

\* An accepted log() call: build the event, store it with rotation and enter
\* notify() for it.  stk is the call stack the new notify() loop is pushed on,
\* cont the span that LogSpan.fail still has to finish once log() returns.
Accept(level, message, data, context, spanId, cont, stk) ==
  /\ nextId <= MaxEvents
  /\ LET ev == [id |-> nextId, timestamp |-> now, level |-> level,
                message |-> message, data |-> data, context |-> context,
                spanId |-> spanId]
     IN /\ logs' = Store(logs, ev, config.maxLogs)
        /\ stack' = Append(stk, Frame(ev, cont))
  /\ nextId' = nextId + 1
  /\ accepted' = Append(accepted, nextId)
  /\ UNCHANGED <<config, epochOK>>

\* A log() call that creates nothing: it returned at the gate, or building
\* the event threw and the outer catch of log() swallowed the exception
Reject(stk) ==
  /\ stack' = stk
  /\ UNCHANGED storeVars

\* LoggerCore.log(level, message, data, context, spanId), called with the
\* call stack stk
LogCall(level, message, data, context, spanId, cont, stk) ==
  IF ~PassesGate(config, level) THEN Reject(stk)
  ELSE LET m == ToStringJS(message)
           d == safeCloneData(data)
       IN IF m.threw \/ d.threw THEN Reject(stk)
          ELSE Accept(level, m.out, d.out,
                      mergedContext(globalContext, context), spanId, cont, stk)

\* logger.debug / info / warn / error with a string message and no data
Log(level) ==
  /\ stack = <<>>
  /\ LogCall(level, StringMessage, <<>>, UndefinedContext, NoSpan, NoSpan, stack)
  /\ lastOp' = Op("log", level, NoSpan, 0, "")
  /\ UNCHANGED <<subVars, received, spanVars, spanSubscribers, now>>
  /\ UNCHANGED extVars

\* logger.info(message, ...data) with an arbitrary message and payload
LogPayload(message, data) ==
  /\ stack = <<>>
  /\ LogCall("info", message, data, UndefinedContext, NoSpan, NoSpan, stack)
  /\ lastOp' = Op("payload", "info", NoSpan, 0, "")
  /\ UNCHANGED <<subVars, received, spanVars, spanSubscribers, now>>
  /\ UNCHANGED extVars

(* ---------------------------- LoggerCore.notify ------------------------- *)

\* the notify() loop that never catches: the first exception ends it
AfterThrowAbort(stk) ==
  [stk EXCEPT ![Len(stk)].pos = Len(entries) + 1]

\* the catch block of notify(): the loop goes on with the next subscriber
AfterThrow(stk) == stk

\* One iteration of the for-of loop of the innermost notify(): the Set
\* iterator yields the next live entry and the callback is invoked with the
\* event.  The callback returns, throws, or calls logger.info() and returns.
Deliver(outcome) ==
  /\ stack # <<>>
  /\ LET top == Len(stack)
         fr == stack[top]
         i == NextAlive(entries, fr.pos)
     IN /\ i # 0
        /\ LET f == entries[i]
               stk == [stack EXCEPT ![top].pos = i + 1]
           IN /\ received' = [received EXCEPT ![f] = Append(@, fr.ev.id)]
              /\ lastOp' = Op("deliver", "", NoSpan, f, outcome)
              /\ CASE outcome = "return" ->
                        /\ stack' = stk
                        /\ UNCHANGED storeVars
                   [] outcome = "throw" ->
                        /\ stack' = AfterThrow(
                             [stk EXCEPT ![top].threw = @ \cup {f}])
                        /\ UNCHANGED storeVars
                   [] outcome = "log" ->
                        LogCall("info", StringMessage, <<>>, UndefinedContext,
                                NoSpan, NoSpan, stk)
  /\ UNCHANGED <<subVars, spanSubscribers, now>>
  /\ UNCHANGED spanVars
  /\ UNCHANGED extVars

\* what a callback may do to the logger before it returns: subscribe(g),
\* invoke a token of g, invoke a token of g and subscribe(g) again, or clear()
Mutations == {"subscribe", "unsubscribe", "resubscribe", "clear"}

\* the registry after the callback's calls
Mutated(es, kind, g) ==
  CASE kind = "subscribe" -> SetAdd(es, g)
    [] kind = "unsubscribe" -> SetDelete(es, g)
    [] kind = "resubscribe" -> SetAdd(SetDelete(es, g), g)
    [] kind = "clear" -> es

\* One iteration of the for-of loop of the innermost notify() in which the
\* callback changes the logger and returns.  The Set iterators of all the
\* running loops stay alive, so a deleted entry keeps its index.
DeliverMutating(kind, g) ==
  /\ stack # <<>>
  /\ LET top == Len(stack)
         fr == stack[top]
         i == NextAlive(entries, fr.pos)
     IN /\ i # 0
        /\ LET f == entries[i]
               stk == [stack EXCEPT ![top].pos = i + 1]
           IN /\ received' = [received EXCEPT ![f] = Append(@, fr.ev.id)]
              /\ lastOp' = Op("deliver", "", NoSpan, f, kind)
              /\ kind \in {"unsubscribe", "resubscribe"} => g \in tokens
              /\ entries' = Mutated(entries, kind, g)
              /\ Len(entries') <= MaxEntries
              /\ tokens' = IF kind = "subscribe" THEN tokens \cup {g} ELSE tokens
              /\ stack' = IF kind \in {"unsubscribe", "resubscribe"}
                          THEN [k \in DOMAIN stk |->
                                  [stk[k] EXCEPT !.gone = @ \cup {g}]]
                          ELSE stk
              /\ IF kind = "clear"
                 THEN /\ logs' = <<>>
                      /\ spansMap' = {}
                      /\ accepted' = <<>>
                      /\ epochOK' = TRUE
                      /\ UNCHANGED <<config, nextId, spanObj, ended, spanNotes>>
                 ELSE UNCHANGED <<storeVars, spanVars>>
  /\ UNCHANGED <<spanSubscribers, now>>
  /\ UNCHANGED extVars

\* The entry list of the Set after a rehash and the index an iterator has
\* in it: the emptied entries are dropped and the iterator moves down by the
\* number of them below it, so it still looks at the same entry
Rehashed(es, pos) ==
  [entries |-> Compact(es),
   pos |-> pos - Cardinality({i \in DOMAIN es : i < pos /\ es[i] = 0})]

\* One iteration of the for-of loop of a notify() that no callback re-enters:
\* the callback returns at once (kind "return") or first changes the
\* registry as in DeliverMutating.  The loop may go on for ever, so the
\* invocation is not added to received and the table is kept rehashed.
DeliverRenewing(kind, g) ==
  /\ Len(stack) = 1
  /\ LET fr == stack[1]
         i == NextAlive(entries, fr.pos)
     IN /\ i # 0
        /\ kind \in {"unsubscribe", "resubscribe"} => g \in tokens
        /\ LET f == entries[i]
               es == IF kind = "return" THEN entries
                     ELSE Mutated(entries, kind, g)
               table == Rehashed(es, i + 1)
           IN /\ entries' = table.entries
              /\ stack' = <<[fr EXCEPT
                               !.pos = table.pos,
                               !.gone = IF kind \in {"unsubscribe", "resubscribe"}
                                        THEN @ \cup {g} ELSE @]>>
              /\ tokens' = IF kind = "subscribe" THEN tokens \cup {g}
                           ELSE tokens
              /\ lastOp' = Op("deliver", "", NoSpan, f, kind)
  /\ UNCHANGED <<storeVars, received, spanVars, spanSubscribers, now>>
  /\ UNCHANGED extVars

(* ------------------------------- LogSpan -------------------------------- *)

\* SpanEvent as the LogSpan constructor builds it
NewSpan(id, context, parentId, t) ==
  [id |-> id, startTime |-> t, status |-> "running", endTime |-> Undefined,
   duration |-> Undefined, parentId |-> parentId, context |-> context]

\* finish() subtracting the wrong way round
FinishedNegated(ev, status, t) ==
  [ev EXCEPT !.endTime = t, !.duration = ev.startTime - t, !.status = status]

\* the assignments of LogSpan.finish
Finished(ev, status, t) ==
  [ev EXCEPT !.endTime = t, !.duration = t - ev.startTime, !.status = status]

\* finish() without its guard
AlreadyEndedNever(h) == FALSE

\* finish() guarding on the status instead of on _ended
AlreadyEndedOnlySuccess(h) == spanObj[h].status = "success"

\* if (this._ended) return;
AlreadyEnded(h) == ended[h]

\* the convenience methods without their guard
HandleOpenAlways(h) == TRUE

\* if (!this._ended) in LogSpan.debug / info / warn / error
HandleOpen(h) == ~ended[h]

\* LoggerCore.notifySpan: spans.set(span.id, span), then every span
\* subscriber is called with the span; a throwing one is ignored
\* a constructor that announces nothing: only terminal states are notified
NotifySpanTerminalOnly(h, status) ==
  /\ spansMap' = spansMap \cup {h}
  /\ spanNotes' = IF status = "running" THEN spanNotes
                  ELSE Append(spanNotes,
                              [id |-> h, status |-> status, to |-> spanSubscribers])

NotifySpan(h, status) ==
  /\ spansMap' = spansMap \cup {h}
  /\ spanNotes' = Append(spanNotes,
                         [id |-> h, status |-> status, to |-> spanSubscribers])

\* LogSpan.finish(status)
FinishSpan(h, status) ==
  IF AlreadyEnded(h) THEN UNCHANGED spanVars
  ELSE /\ ended' = [ended EXCEPT ![h] = TRUE]
       /\ spanObj' = [spanObj EXCEPT ![h] = Finished(@, status, now)]
       /\ NotifySpan(h, status)

\* The innermost notify() loop has no live entry left: notify() and the
\* log() that called it return.  When that log() was the this.error(...) of
\* LogSpan.fail, fail goes on to this.finish('error').
NotifyDone ==
  /\ stack # <<>>
  /\ LET fr == stack[Len(stack)]
     IN /\ NextAlive(entries, fr.pos) = 0
        /\ IF fr.cont # NoSpan THEN FinishSpan(fr.cont, "error")
           ELSE UNCHANGED spanVars
        /\ lastOp' = Op("notifyDone", "", fr.cont, 0, "")
  /\ stack' = SubSeq(stack, 1, Len(stack) - 1)
  /\ entries' = IF Len(stack) = 1 THEN Compact(entries) ELSE entries
  /\ UNCHANGED <<storeVars, tokens, received, spanSubscribers, now>>
  /\ UNCHANGED extVars

(* ----------------------- configure / clear / import --------------------- *)

\* { ...this.config, ...config }
Merge(cfg, patch) ==
  [k \in DOMAIN cfg |-> IF k \in DOMAIN patch THEN patch[k] ELSE cfg[k]]

\* LoggerCore.configure(patch)
Configure(patch) ==
  /\ stack = <<>>
  /\ config' = Merge(config, patch)
  /\ IF config'.maxLogs = config.maxLogs THEN UNCHANGED <<accepted, epochOK>>
     ELSE IF logs = <<>> THEN accepted' = <<>> /\ epochOK' = TRUE
     ELSE accepted' = accepted /\ epochOK' = FALSE
  /\ lastOp' = Op("configure", "", NoSpan, 0, "")
  /\ UNCHANGED <<logs, nextId, subVars, stack, received, spanVars,
                 spanSubscribers, now>>
  /\ UNCHANGED extVars

\* a clear() that also forgets the log subscribers
ClearDropsSubscribers ==
  /\ stack = <<>>
  /\ logs' = <<>>
  /\ spansMap' = {}
  /\ entries' = <<>>
  /\ accepted' = <<>>
  /\ epochOK' = TRUE
  /\ lastOp' = Op("clear", "", NoSpan, 0, "")
  /\ UNCHANGED <<config, nextId, tokens, stack, received, spanObj, ended,
                 spanNotes, spanSubscribers, now>>
  /\ UNCHANGED extVars

\* LoggerCore.clear()
Clear ==
  /\ stack = <<>>
  /\ logs' = <<>>
  /\ spansMap' = {}
  /\ accepted' = <<>>
  /\ epochOK' = TRUE
  /\ lastOp' = Op("clear", "", NoSpan, 0, "")
  /\ UNCHANGED <<config, nextId, subVars, stack, received, spanObj, ended,
                 spanNotes, spanSubscribers, now>>
  /\ UNCHANGED extVars

\* an event of an earlier session, as read back from storage
ForeignEvent(id) ==
  [id |-> id, timestamp |-> 0, level |-> "info", message |-> "m",
   data |-> <<>>, context |-> UndefinedContext, spanId |-> NoSpan]

SeqsUpTo(S, n) == UNION {[1..k -> S] : k \in 0..n}

\* the arrays importLogs() is called with: copies of stored events and
\* events the store has never held
ForeignArrays ==
  SeqsUpTo({logs[i] : i \in DOMAIN logs} \cup {ForeignEvent(id) : id \in ForeignIds},
           MaxImport)

\* an import that filters nothing
ImportedUnfiltered(ls, foreign, cap) == Rotate(foreign \o ls, cap)

\* the body of LoggerCore.importLogs for a non-empty array
Imported(ls, foreign, cap) ==
  LET existingIds == Ids(ls)
      newLogs == SelectSeq(foreign, LAMBDA l : l.id \notin existingIds)
  IN Rotate(newLogs \o ls, cap)

\* an importLogs() that announces the first event of the store to the log
\* subscribers
ImportLogsNotifying(foreign) ==
  /\ stack = <<>>
  /\ IF foreign = <<>> THEN UNCHANGED <<logs, epochOK>>
     ELSE /\ logs' = Imported(logs, foreign, config.maxLogs)
          /\ epochOK' = FALSE
  /\ stack' = IF logs' = <<>> THEN stack ELSE <<Frame(logs'[1], NoSpan)>>
  /\ lastOp' = Op("import", "", NoSpan, 0,
                  IF lastOp.op = "import" /\ lastImport = foreign
                  THEN "repeat" ELSE "")
  /\ UNCHANGED <<config, nextId, accepted, subVars, received, spanVars,
                 spanSubscribers, now>>
  /\ lastImport' = foreign
  /\ UNCHANGED <<lastExport, pageVars>>
  /\ UNCHANGED <<ctxVars, regs>>
  /\ UNCHANGED persistVars

\* LoggerCore.importLogs(foreign)
ImportLogs(foreign) ==
  /\ stack = <<>>
  /\ IF foreign = <<>> THEN UNCHANGED <<logs, epochOK>>
     ELSE /\ logs' = Imported(logs, foreign, config.maxLogs)
          /\ epochOK' = FALSE
  /\ lastOp' = Op("import", "", NoSpan, 0,
                  IF lastOp.op = "import" /\ lastImport = foreign
                  THEN "repeat" ELSE "")
  /\ UNCHANGED <<config, nextId, accepted, subVars, stack, received, spanVars,
                 spanSubscribers, now>>
  /\ lastImport' = foreign
  /\ UNCHANGED <<lastExport, pageVars>>
  /\ UNCHANGED <<ctxVars, regs>>
  /\ UNCHANGED persistVars

(* ------------------------------- export -------------------------------- *)

\* String.prototype.toLowerCase() on a text given by its characters
ToLowerCase(text) ==
  [i \in DOMAIN text |->
     CASE text[i] = "A" -> "a" [] text[i] = "B" -> "b" [] text[i] = "C" -> "c"
       [] OTHER -> text[i]]

\* String.prototype.includes()
Includes(text, part) ==
  \E i \in 0..(Len(text) - Len(part)) :
     SubSeq(text, i + 1, i + Len(part)) = part

RECURSIVE Stringify(_)
\* JSON.stringify(log.data) for data of primitives: the characters of the
\* array text, the number 1 as 1, the string 'Bc' in quotes; a bigint makes
\* JSON.stringify() throw a TypeError
Stringify(data) ==
  IF data = <<>> THEN [text |-> <<"[", "]">>, threw |-> FALSE]
  ELSE LET n == Len(data)
           front == Stringify(SubSeq(data, 1, n - 1))
           item == CASE data[n].s = "string" -> <<"\"", "B", "c", "\"">>
                     [] OTHER -> <<"1">>
       IN IF front.threw \/ data[n].s = "bigint"
          THEN [text |-> <<>>, threw |-> TRUE]
          ELSE [text |-> SubSeq(front.text, 1, Len(front.text) - 1)
                           \o (IF n > 1 THEN <<",">> ELSE <<>>)
                           \o item \o <<"]">>,
                threw |-> FALSE]

\* LoggerCore.exportLogs(options) with format 'json': the events of the
\* returned JSON array, which is '[]' when anything in the body threw
exportLogs(ls, t, options) ==
  LET byTime ==
        IF options.lastMs > 0
        THEN SelectSeq(ls, LAMBDA log : log.timestamp >= t - options.lastMs)
        ELSE ls
      levelSet == {options.levels.list[i] : i \in DOMAIN options.levels.list}
      byLevel ==
        IF options.levels.given /\ Len(options.levels.list) > 0
        THEN SelectSeq(byTime, LAMBDA log : log.level \in levelSet)
        ELSE byTime
      searching == options.search.given /\ options.search.text # <<>>
      searchLower == ToLowerCase(options.search.text)
      InMessage(log) == Includes(ToLowerCase(log.message), searchLower)
      searchThrew ==
        /\ searching
        /\ \E i \in DOMAIN byLevel :
              ~InMessage(byLevel[i]) /\ Stringify(byLevel[i].data).threw
      bySearch ==
        IF searching
        THEN SelectSeq(byLevel, LAMBDA log :
               \/ InMessage(log)
               \/ Includes(ToLowerCase(Stringify(log.data).text), searchLower))
        ELSE byLevel
      stringifyThrew ==
        \E i \in DOMAIN bySearch : Stringify(bySearch[i].data).threw
  IN IF searchThrew \/ stringifyThrew
     THEN [out |-> <<>>, threw |-> TRUE]
     ELSE [out |-> bySearch, threw |-> FALSE]

\* the log calls made before an export: level, message text and data
LogInputs ==
  {<<"info", <<"A", "b">>, <<>>>>,
   <<"warn", <<"A", "b">>, <<>>>>,
   <<"warn", <<"c">>, <<TextValue>>>>,
   <<"info", <<"c">>, <<BigIntValue>>>>}

\* logger.info / warn with a message text and data
LogText(input) ==
  /\ stack = <<>>
  /\ LogCall(input[1], [t |-> "string", s |-> input[2]], input[3],
             UndefinedContext, NoSpan, NoSpan, stack)
  /\ lastOp' = Op("log", input[1], NoSpan, 0, "")
  /\ UNCHANGED <<subVars, received, spanVars, spanSubscribers, now>>
  /\ UNCHANGED extVars

\* the options objects passed to exportLogs(): nothing, empty filters, and
\* every combination of a time window, a level list and a search text
ExportInputs ==
  {ExportOptions(Undefined, FALSE, <<>>, FALSE, <<>>),
   ExportOptions(0, TRUE, <<>>, TRUE, <<>>)}
  \cup {ExportOptions(lastMs, lv # <<>>, lv, search # <<>>, search) :
          lastMs \in {Undefined, 1}, lv \in {<<>>, <<"warn">>},
          search \in {<<>>, <<"a", "B">>, <<"b", "C">>}}

\* logger.exportLogs(options)
ExportLogs(options) ==
  /\ stack = <<>>
  /\ LET result == exportLogs(logs, now, options)
     IN lastExport' = [options |-> options, out |-> result.out,
                       threw |-> result.threw]
  /\ lastOp' = Op("export", "", NoSpan, 0, "")
  /\ UNCHANGED <<storeVars, subVars, stack, received, spanVars,
                 spanSubscribers, now, ctxVars, lastImport, pageVars, regs,
                 persistVars>>

(* ------------------------ subscribe / unsubscribe ----------------------- *)

\* LoggerCore.subscribe(fn)
Subscribe(f) ==
  /\ stack = <<>>
  /\ entries' = SetAdd(entries, f)
  /\ tokens' = tokens \cup {f}
  /\ lastOp' = Op("subscribe", "", NoSpan, f, "")
  /\ UNCHANGED <<storeVars, stack, received, spanVars, spanSubscribers, now>>
  /\ UNCHANGED extVars

\* calling an Unsubscribe that subscribe(fn) returned
Unsubscribe(f) ==
  /\ stack = <<>>
  /\ f \in tokens
  /\ entries' = Compact(SetDelete(entries, f))
  /\ lastOp' = Op("unsubscribe", "", NoSpan, f, "")
  /\ UNCHANGED <<storeVars, tokens, stack, received, spanVars,
                 spanSubscribers, now>>
  /\ UNCHANGED extVars

\* logger.subscribe(f), keeping count of the registrations of f: the call
\* adds f to the Set and returns a new token
Register(f) ==
  /\ stack = <<>>
  /\ regs[f].live + regs[f].spent < MaxRegs
  /\ entries' = SetAdd(entries, f)
  /\ tokens' = tokens \cup {f}
  /\ regs' = [regs EXCEPT ![f].live = @ + 1]
  /\ lastOp' = Op("subscribe", "", NoSpan, f, "")
  /\ UNCHANGED <<storeVars, stack, received, spanVars, spanSubscribers, now,
                 ctxVars, lastImport, lastExport, pageVars>>
  /\ UNCHANGED persistVars

\* Invoking a token that a subscribe(f) call returned: for the first time
\* (fresh) or once more.  Either way the closure deletes f from the Set.
InvokeToken(f, fresh) ==
  /\ stack = <<>>
  /\ IF fresh THEN regs[f].live > 0 ELSE regs[f].spent > 0
  /\ entries' = Compact(SetDelete(entries, f))
  /\ regs' = IF fresh
             THEN [regs EXCEPT ![f].live = @ - 1, ![f].spent = @ + 1]
             ELSE regs
  /\ lastOp' = Op("unsubscribe", "", NoSpan, f, IF fresh THEN "fresh" ELSE "again")
  /\ UNCHANGED <<storeVars, tokens, stack, received, spanVars,
                 spanSubscribers, now, ctxVars, lastImport, lastExport, pageVars>>
  /\ UNCHANGED persistVars

\* LoggerCore.subscribeSpans(fn)
SubscribeSpans(f) ==
  /\ stack = <<>>
  /\ spanSubscribers' = spanSubscribers \cup {f}
  /\ lastOp' = Op("subscribeSpans", "", NoSpan, f, "")
  /\ UNCHANGED <<storeVars, subVars, stack, received, spanVars, now>>
  /\ UNCHANGED extVars

(* ------------------------------- contexts ------------------------------- *)

\* logger.setGlobalContext(context)
SetGlobalContext(context) ==
  /\ stack = <<>>
  /\ globalContext' = Object(Spread({}, context.kv))
  /\ lastOp' = Op("setGlobalContext", "", NoSpan, 0, "")
  /\ UNCHANGED <<storeVars, subVars, stack, received, spanVars,
                 spanSubscribers, now, sessionId, bound, lastContext,
                 lastImport, lastExport, pageVars, regs>>
  /\ UNCHANGED persistVars

\* logger.updateGlobalContext(context)
UpdateGlobalContext(context) ==
  /\ stack = <<>>
  /\ globalContext' = Object(Spread(globalContext.kv, context.kv))
  /\ lastOp' = Op("updateGlobalContext", "", NoSpan, 0, "")
  /\ UNCHANGED <<storeVars, subVars, stack, received, spanVars,
                 spanSubscribers, now, sessionId, bound, lastContext,
                 lastImport, lastExport, pageVars, regs>>
  /\ UNCHANGED persistVars

\* logger.clearGlobalContext()
ClearGlobalContext ==
  /\ stack = <<>>
  /\ globalContext' = Object({})
  /\ lastOp' = Op("clearGlobalContext", "", NoSpan, 0, "")
  /\ UNCHANGED <<storeVars, subVars, stack, received, spanVars,
                 spanSubscribers, now, sessionId, bound, lastContext,
                 lastImport, lastExport, pageVars, regs>>
  /\ UNCHANGED persistVars

\* the ContextLogger constructor; a handle that is dropped frees its place
NewContextLogger(context) ==
  /\ \E keep \in SUBSET bound :
        /\ Cardinality(keep) < MaxBound
        /\ bound' = keep \cup {context}
  /\ UNCHANGED <<storeVars, subVars, stack, received, spanVars,
                 spanSubscribers, now, globalContext, sessionId, lastContext,
                 lastImport, lastExport, pageVars, regs>>
  /\ UNCHANGED persistVars

\* logger.withContext(context)
WithContext(context) ==
  /\ stack = <<>>
  /\ NewContextLogger(context)
  /\ lastOp' = Op("withContext", "", NoSpan, 0, "")

\* debug / info / warn / error of the ContextLogger holding context b
BoundLog(b, level) ==
  /\ stack = <<>>
  /\ b \in bound
  /\ LogCall(level, StringMessage, <<>>, b, NoSpan, NoSpan, stack)
  /\ lastContext' = b
  /\ lastOp' = Op("boundLog", level, NoSpan, 0, "")
  /\ UNCHANGED <<subVars, received, spanVars, spanSubscribers, now,
                 globalContext, sessionId, bound, lastImport, lastExport, pageVars, regs>>
  /\ UNCHANGED persistVars

(* ---------------------------- span operations --------------------------- *)

\* logger.span(name, context) (parent = NoSpan) or handle.span(name, context)
\* of span parent, which spreads the parent's context under the argument
OpenSpan(parent, context) ==
  /\ stack = <<>>
  /\ LET id == Len(spanObj) + 1
         ctx == IF parent = NoSpan THEN context
                ELSE Object(Spread(spanObj[parent].context.kv, context.kv))
     IN /\ spanObj' = Append(spanObj, NewSpan(id, ctx, parent, now))
        /\ ended' = Append(ended, FALSE)
        /\ NotifySpan(id, "running")
        /\ lastOp' = Op("span", "", id, 0, "")
  /\ UNCHANGED <<storeVars, subVars, stack, received, spanSubscribers, now>>
  /\ UNCHANGED extVars

\* handle.debug / info / warn / error
SpanLog(h, level) ==
  /\ stack = <<>>
  /\ IF HandleOpen(h)
     THEN LogCall(level, StringMessage, <<>>, spanObj[h].context, h, NoSpan,
                  stack)
     ELSE Reject(stack)
  /\ lastOp' = Op("spanLog", level, h, 0, "")
  /\ UNCHANGED <<subVars, received, spanVars, spanSubscribers, now>>
  /\ UNCHANGED extVars

\* handle.end()
SpanEnd(h) ==
  /\ stack = <<>>
  /\ FinishSpan(h, "success")
  /\ lastOp' = Op("end", "", h, 0, "")
  /\ UNCHANGED <<storeVars, subVars, stack, received, spanSubscribers, now>>
  /\ UNCHANGED extVars

\* the arguments of handle.fail: none, the empty string, a message, an Error
FailArgs == {"none", "empty", "string", "error"}

\* if (error): undefined and '' are falsy
Truthy(arg) == arg \notin {"none", "empty"}

\* handle.fail(error).  With a truthy argument this.error(message, error)
\* runs first; finish('error') follows when that call has returned, that is
\* at once unless it entered notify().
SpanFail(h, arg) ==
  /\ stack = <<>>
  /\ IF Truthy(arg) /\ HandleOpen(h) /\ PassesGate(config, "error")
     THEN /\ LogCall("error", StringMessage,
                     <<IF arg = "error" THEN ErrorObj ELSE Prim>>,
                     spanObj[h].context, h, h, stack)
          /\ UNCHANGED spanVars
     ELSE /\ Reject(stack)
          /\ FinishSpan(h, "error")
  /\ lastOp' = Op("fail", "", h, 0, arg)
  /\ UNCHANGED <<subVars, received, spanSubscribers, now>>
  /\ UNCHANGED extVars

(* --------------------------- network capture --------------------------- *)

\* A span.info / warn / error call made inside a handler while no log
\* subscriber is registered: the event is built and stored, and notify()
\* finds nobody to call.  The handle is one the handler alone holds.
HandlerLog(level, context, spanId) ==
  IF PassesGate(config, level)
  THEN /\ logs' = Store(logs,
                        [id |-> nextId, timestamp |-> now, level |-> level,
                         message |-> "m", data |-> <<>>,
                         context |-> mergedContext(globalContext, context),
                         spanId |-> spanId],
                        config.maxLogs)
       /\ nextId' = nextId + 1
       /\ accepted' = Append(accepted, nextId)
       /\ UNCHANGED <<config, epochOK>>
  ELSE UNCHANGED storeVars

\* the test that sends a settled request to span.end(): response.ok in
\* patchedFetch, this.status >= 200 && this.status < 400 in the load
\* listener of the patched send
Succeeds(api, result) ==
  /\ result.kind = "response"
  /\ IF api = "fetch" THEN result.status >= 200 /\ result.status <= 299
     ELSE result.status >= 200 /\ result.status < 400

\* patchedFetch(input) up to its await, or the patched send(): a span is
\* opened for the request and its start is logged
SendRequest(api) ==
  /\ stack = <<>>
  /\ Alive(entries) = {}
  /\ LET id == Len(spanObj) + 1
         context == Object({<<"type", api>>})
     IN /\ spanObj' = Append(spanObj, NewSpan(id, context, NoSpan, now))
        /\ ended' = Append(ended, FALSE)
        /\ NotifySpan(id, "running")
        /\ HandlerLog("info", context, id)
        /\ requests' = Append(requests,
                              [api |-> api, span |-> id,
                               result |-> [kind |-> "pending", status |-> 0]])
        /\ lastOp' = Op("send", api, id, 0, "")
  /\ UNCHANGED <<subVars, stack, received, spanSubscribers, now>>
  /\ UNCHANGED <<ctxVars, lastImport, lastExport, regs, persistVars>>
  /\ UNCHANGED <<isInstalled, captureConfig, originalOnError, onerror,
                 lastError, peer>>

\* request r settles: patchedFetch resumes after its await (a response, or
\* the catch for whatever rejected the promise), or the load, error, abort
\* or timeout listener of the XHR runs
Settle(r, result) ==
  /\ stack = <<>>
  /\ Alive(entries) = {}
  /\ requests[r].result.kind = "pending"
  /\ LET api == requests[r].api
         h == requests[r].span
         level == IF Succeeds(api, result) THEN "info"
                  ELSE IF result.kind = "response" THEN "warn"
                  ELSE IF api = "xhr" /\ result.kind = "abort" THEN "warn"
                  ELSE "error"
     IN /\ IF HandleOpen(h)
           THEN HandlerLog(level, spanObj[h].context, h)
           ELSE UNCHANGED storeVars
        /\ FinishSpan(h, IF Succeeds(api, result) THEN "success" ELSE "error")
        /\ requests' = [requests EXCEPT ![r].result = result]
        /\ lastOp' = Op("settle", api, h, 0, result.kind)
  /\ UNCHANGED <<subVars, stack, received, spanSubscribers, now>>
  /\ UNCHANGED <<ctxVars, lastImport, lastExport, regs, persistVars>>
  /\ UNCHANGED <<isInstalled, captureConfig, originalOnError, onerror,
                 lastError, peer>>

(* ----------------------------- ErrorCapture ----------------------------- *)

\* the page assigns window.onerror before ErrorCapture is installed: null or
\* a handler of its own
AssignOnError(handler) ==
  /\ stack = <<>>
  /\ ~isInstalled
  /\ onerror' = handler
  /\ lastOp' = Op("assign", "", NoSpan, 0, handler)
  /\ UNCHANGED <<storeVars, subVars, stack, received, spanVars,
                 spanSubscribers, now>>
  /\ UNCHANGED <<ctxVars, lastImport, lastExport, regs, persistVars>>
  /\ UNCHANGED <<requests, isInstalled, captureConfig, originalOnError,
                 lastError, peer>>

\* ErrorCapture.install(options)
Install(options) ==
  /\ stack = <<>>
  /\ IF isInstalled
     THEN /\ captureConfig' = Merge(captureConfig, options)
          /\ UNCHANGED <<originalOnError, onerror, isInstalled>>
     ELSE /\ captureConfig' = Merge(CAPTURE_DEFAULT_CONFIG, options)
          /\ originalOnError' = onerror
          /\ onerror' = IF captureConfig'.captureErrors THEN "handleError"
                        ELSE onerror
          /\ isInstalled' = TRUE
  /\ lastOp' = Op("install", "", NoSpan, 0,
                  IF isInstalled THEN "update" ELSE "start")
  /\ UNCHANGED <<storeVars, subVars, stack, received, spanVars,
                 spanSubscribers, now>>
  /\ UNCHANGED <<ctxVars, lastImport, lastExport, regs, persistVars>>
  /\ UNCHANGED <<requests, lastError, peer>>

\* ErrorCapture.uninstall()
Uninstall ==
  /\ stack = <<>>
  /\ IF ~isInstalled
     THEN UNCHANGED <<originalOnError, onerror, isInstalled>>
     ELSE /\ onerror' = originalOnError
          /\ originalOnError' = "null"
          /\ isInstalled' = FALSE
  /\ lastOp' = Op("uninstall", "", NoSpan, 0,
                  IF isInstalled THEN "stop" ELSE "")
  /\ UNCHANGED <<storeVars, subVars, stack, received, spanVars,
                 spanSubscribers, now>>
  /\ UNCHANGED <<ctxVars, lastImport, lastExport, regs, persistVars>>
  /\ UNCHANGED <<requests, captureConfig, lastError, peer>>

\* An uncaught error: the browser calls window.onerror when it is set.  ret
\* is what the page's own handler does when it is called: it returns true,
\* false or undefined, or it throws; returned is whether window.onerror
\* returned true.  handleError logs the error and chains
\* to originalOnError: originalOnError(...) ?? false, false when that throws.
UncaughtError(ret) ==
  /\ stack = <<>>
  /\ IF onerror = "handleError"
     THEN /\ LogCall("error", StringMessage, <<Prim>>, UndefinedContext,
                     NoSpan, NoSpan, stack)
          /\ lastError' =
               [logged |-> nextId' - nextId,
                chained |-> IF originalOnError # "null" THEN 1 ELSE 0,
                returned |-> originalOnError # "null" /\ ret = "true"]
     ELSE /\ Reject(stack)
          /\ lastError' =
               [logged |-> 0,
                chained |-> IF onerror = "page" THEN 1 ELSE 0,
                returned |-> onerror = "page" /\ ret = "true"]
  /\ lastOp' = Op("onerror", "", NoSpan, 0, ret)
  /\ UNCHANGED <<subVars, received, spanVars, spanSubscribers, now>>
  /\ UNCHANGED <<ctxVars, lastImport, lastExport, regs, persistVars>>
  /\ UNCHANGED <<requests, isInstalled, captureConfig, originalOnError,
                 onerror, peer>>

\* the wall clock advances
Tick ==
  /\ now < MaxTime
  /\ now' = now + 1
  /\ lastOp' = Op("tick", "", NoSpan, 0, "")
  /\ UNCHANGED <<storeVars, subVars, stack, received, spanVars, spanSubscribers>>
  /\ UNCHANGED extVars

(* ---------------------------- specifications ---------------------------- *)

(* ------------------------- persistence bridge -------------------------- *)

\* a check made after the new marker was written: it always finds a marker
detectCrashAfterWrite(flags, cfg) == TRUE

\* detectCrash(): the marker of the configured storage is 'active'
detectCrash(flags, cfg) == flags[cfg.storage]

\* setActiveFlag()
setActiveFlag(flags, cfg) == [flags EXCEPT ![cfg.storage] = TRUE]

\* clearActiveFlag()
clearActiveFlag(flags, cfg) == [flags EXCEPT ![cfg.storage] = FALSE]

\* Array.prototype.slice(-n) for n >= 0: the last n elements, and the whole
\* array for n = 0 because -0 is the start index 0
SliceFromEnd(s, n) == IF n = 0 THEN s ELSE LastN(s, n)

\* the capacities a storage may have when setItem() runs: the number of
\* events the value may hold, -1 for a storage that rejects every write
Rooms == -1..MaxRoom

\* setItem(STORAGE_KEY, JSON.stringify(array)) does not throw
\* QuotaExceededError
Fits(array, room) == Len(array) <= room

\* persistLogs(logs): the trimmed array replaces the stored one; when the
\* storage is full one more attempt is made with the reduced array
persistLogs(stored, ls, cfg, room) ==
  LET toStore == SliceFromEnd(ls, cfg.maxPersisted)
      reduced == SliceFromEnd(ls, cfg.maxPersisted \div 2)
  IN IF Fits(toStore, room)
     THEN [stored |-> [stored EXCEPT ![cfg.storage] = Serialized(toStore)],
           tried |-> <<toStore>>, ok |-> TRUE]
     ELSE IF Fits(reduced, room)
     THEN [stored |-> [stored EXCEPT ![cfg.storage] = Serialized(reduced)],
           tried |-> <<toStore, reduced>>, ok |-> TRUE]
     ELSE [stored |-> stored, tried |-> <<toStore, reduced>>, ok |-> FALSE]

\* a schedulePersist() that arms a timer without clearing the pending one
schedulePersistNoClear(allLogs, timer, armed) ==
  [pendingLogs |-> allLogs, debounceTimer |-> TRUE, timers |-> armed + 1]

\* schedulePersist(allLogs): the pending timer is cleared and a new one armed
schedulePersist(allLogs, timer, armed) ==
  [pendingLogs |-> allLogs, debounceTimer |-> TRUE,
   timers |-> (IF timer THEN armed - 1 ELSE armed) + 1]

\* the options objects passed to enable()
EnableOptions ==
  {<<>>, [storage |-> "session"], [storage |-> "local"]}

\* options objects that set the trimming bound
TrimOptions == {[maxPersisted |-> n] : n \in 0..MaxCap}

\* LogPersistence.enable(options)
Enable(options) ==
  /\ stack = <<>>
  /\ IF isEnabled
     THEN /\ pconfig' = Merge(pconfig, options)
          /\ UNCHANGED <<isEnabled, wasUncleanShutdown, unsubscribeFromLogger,
                         unloadHooks, markerAt, activeFlag, subVars>>
     ELSE /\ pconfig' = Merge(PERSISTENCE_DEFAULT_CONFIG, options)
          /\ wasUncleanShutdown' = detectCrash(activeFlag, pconfig')
          /\ activeFlag' = setActiveFlag(activeFlag, pconfig')
          /\ entries' = SetAdd(entries, PersistFn)
          /\ unsubscribeFromLogger' = TRUE
          /\ unloadHooks' = TRUE
          /\ isEnabled' = TRUE
          /\ markerAt' = pconfig'.storage
          /\ UNCHANGED tokens
  /\ lastOp' = Op("enable", "", NoSpan, 0, IF isEnabled THEN "update" ELSE "start")
  /\ UNCHANGED <<storeVars, stack, received, spanVars, spanSubscribers, now,
                 ctxVars, lastImport, lastExport, pageVars, regs, pendingLogs, debounceTimer,
                 persisted, timers, ioVars>>

\* LogPersistence.disable()
Disable ==
  /\ stack = <<>>
  /\ IF ~isEnabled
     THEN UNCHANGED <<isEnabled, debounceTimer, timers, burst,
                      unsubscribeFromLogger, unloadHooks, activeFlag, subVars>>
     ELSE /\ debounceTimer' = FALSE
          /\ burst' = 0
          /\ timers' = IF debounceTimer THEN timers - 1 ELSE timers
          /\ entries' = IF unsubscribeFromLogger
                        THEN Compact(SetDelete(entries, PersistFn))
                        ELSE entries
          /\ unsubscribeFromLogger' = FALSE
          /\ unloadHooks' = FALSE
          /\ activeFlag' = clearActiveFlag(activeFlag, pconfig)
          /\ isEnabled' = FALSE
          /\ UNCHANGED tokens
  /\ lastOp' = Op("disable", "", NoSpan, 0, IF isEnabled THEN "stop" ELSE "")
  /\ UNCHANGED <<storeVars, stack, received, spanVars, spanSubscribers, now,
                 ctxVars, lastImport, lastExport, pageVars, regs, pconfig, pendingLogs,
                 wasUncleanShutdown, markerAt, persisted, lastWrite,
                 lastRead>>

\* One iteration of the innermost notify() loop that invokes handleNewLog:
\* schedulePersist([...logger.getLogs()]) replaces the pending timer
DeliverPersist ==
  /\ stack # <<>>
  /\ LET top == Len(stack)
         i == NextAlive(entries, stack[top].pos)
     IN /\ i # 0
        /\ entries[i] = PersistFn
        /\ stack' = [stack EXCEPT ![top].pos = i + 1]
  /\ IF isEnabled
     THEN LET armed == schedulePersist(logs, debounceTimer, timers)
          IN /\ pendingLogs' = armed.pendingLogs
             /\ debounceTimer' = armed.debounceTimer
             /\ timers' = armed.timers
             /\ burst' = burst + 1
     ELSE UNCHANGED <<pendingLogs, debounceTimer, timers, burst>>
  /\ lastOp' = Op("handleNewLog", "", NoSpan, PersistFn, "")
  /\ UNCHANGED <<storeVars, subVars, received, spanVars, spanSubscribers, now,
                 ctxVars, lastImport, lastExport, pageVars, regs, isEnabled, pconfig,
                 wasUncleanShutdown, unsubscribeFromLogger, unloadHooks,
                 markerAt, storageVars, lastWrite, lastRead>>

\* an armed timer expires: persistLogs(pendingLogs); debounceTimer = null
TimerFires(room) ==
  /\ stack = <<>>
  /\ timers > 0
  /\ LET write == persistLogs(persisted, pendingLogs, pconfig, room)
     IN /\ persisted' = write.stored
        /\ lastWrite' = [tried |-> write.tried, ok |-> write.ok,
                         burst |-> burst]
  /\ debounceTimer' = FALSE
  /\ timers' = timers - 1
  /\ burst' = 0
  /\ lastOp' = Op("timer", "", NoSpan, 0, "")
  /\ UNCHANGED <<storeVars, subVars, stack, received, spanVars,
                 spanSubscribers, now, ctxVars, lastImport, lastExport, pageVars, regs, isEnabled,
                 pconfig, pendingLogs, wasUncleanShutdown,
                 unsubscribeFromLogger, unloadHooks, markerAt, activeFlag,
                 lastRead>>

\* handleBeforeUnload(): the listener of beforeunload and pagehide runs
HandleBeforeUnload(room) ==
  /\ stack = <<>>
  /\ unloadHooks
  /\ debounceTimer' = FALSE
  /\ timers' = IF debounceTimer THEN timers - 1 ELSE timers
  /\ IF Len(pendingLogs) > 0
     THEN LET write == persistLogs(persisted, pendingLogs, pconfig, room)
          IN /\ persisted' = write.stored
             /\ lastWrite' = [tried |-> write.tried, ok |-> write.ok,
                              burst |-> burst]
     ELSE UNCHANGED <<persisted, lastWrite>>
  /\ burst' = 0
  /\ activeFlag' = clearActiveFlag(activeFlag, pconfig)
  /\ lastOp' = Op("unload", "", NoSpan, 0,
                  IF Len(pendingLogs) > 0 THEN "flush" ELSE "")
  /\ UNCHANGED <<storeVars, subVars, stack, received, spanVars,
                 spanSubscribers, now, ctxVars, lastImport, lastExport, pageVars, regs, isEnabled,
                 pconfig, pendingLogs, wasUncleanShutdown,
                 unsubscribeFromLogger, unloadHooks, markerAt, lastRead>>

\* enable({ storage: 'local' }) in the other session, which runs the same
\* module over the same localStorage
PeerEnable ==
  /\ stack = <<>>
  /\ ~peer.isEnabled
  /\ LET cfg == Merge(PERSISTENCE_DEFAULT_CONFIG, [storage |-> "local"])
     IN /\ peer' = [isEnabled |-> TRUE,
                    wasUncleanShutdown |-> detectCrash(activeFlag, cfg)]
        /\ activeFlag' = setActiveFlag(activeFlag, cfg)
  /\ lastOp' = Op("peerEnable", "", NoSpan, 0, "")
  /\ UNCHANGED <<storeVars, subVars, stack, received, spanVars,
                 spanSubscribers, now, ctxVars, lastImport, lastExport, regs,
                 bridgeVars, persisted, ioVars>>
  /\ UNCHANGED <<requests, isInstalled, captureConfig, originalOnError,
                 onerror, lastError>>

\* the other session shuts down cleanly: disable(), or its page unloads and
\* handleBeforeUnload() runs
PeerShutdown ==
  /\ stack = <<>>
  /\ peer.isEnabled
  /\ LET cfg == Merge(PERSISTENCE_DEFAULT_CONFIG, [storage |-> "local"])
     IN activeFlag' = clearActiveFlag(activeFlag, cfg)
  /\ peer' = [peer EXCEPT !.isEnabled = FALSE]
  /\ lastOp' = Op("peerShutdown", "", NoSpan, 0, "")
  /\ UNCHANGED <<storeVars, subVars, stack, received, spanVars,
                 spanSubscribers, now, ctxVars, lastImport, lastExport, regs,
                 bridgeVars, persisted, ioVars>>
  /\ UNCHANGED <<requests, isInstalled, captureConfig, originalOnError,
                 onerror, lastError>>

\* a reader that skips the validation of the parsed elements
loadPersistedLogsUnvalidated(stored, cfg) ==
  LET payload == stored[cfg.storage]
  IN IF payload.kind # "array" THEN <<>>
     ELSE [i \in DOMAIN payload.items |-> payload.items[i].ev]

\* loadPersistedLogs(): the valid elements of the stored array, [] for an
\* absent, unparseable or non-array value
loadPersistedLogs(stored, cfg) ==
  LET payload == stored[cfg.storage]
      valid == SelectSeq(payload.items,
                 LAMBDA log : /\ log.kind # "null"
                              /\ log.id = "string"
                              /\ log.timestamp = "number"
                              /\ log.level = "string"
                              /\ log.message = "string")
  IN IF payload.kind # "array" THEN <<>>
     ELSE [i \in DOMAIN valid |-> valid[i].ev]

\* a rehydrate() that returns the number of events it added to the store
rehydrateCountsImported(ls, stored, cfg, cap) ==
  LET found == loadPersistedLogs(stored, cfg)
      after == IF found = <<>> THEN ls ELSE Imported(ls, found, cap)
  IN [read |-> found, logs |-> after,
      returned |-> Len(SelectSeq(after, LAMBDA l : l.id \notin Ids(ls)))]

\* rehydrate(): the store after the call and the number returned
rehydrate(ls, stored, cfg, cap) ==
  LET found == loadPersistedLogs(stored, cfg)
  IN [read |-> found,
      logs |-> IF found = <<>> THEN ls ELSE Imported(ls, found, cap),
      returned |-> Len(found)]

\* LogPersistence.rehydrate()
Rehydrate ==
  /\ stack = <<>>
  /\ LET r == rehydrate(logs, persisted, pconfig, config.maxLogs)
     IN /\ logs' = r.logs
        /\ epochOK' = (epochOK /\ r.read = <<>>)
        /\ lastImport' = r.read
        /\ UNCHANGED <<lastExport, pageVars>>
        /\ lastRead' = [logs |-> r.read, returned |-> r.returned]
  /\ lastOp' = Op("rehydrate", "", NoSpan, 0, "")
  /\ UNCHANGED <<config, nextId, accepted, subVars, stack, received, spanVars,
                 spanSubscribers, now, ctxVars, regs, bridgeVars, storageVars,
                 burst, lastWrite>>

\* LogPersistence.getPersistedLogs()
GetPersistedLogs ==
  /\ stack = <<>>
  /\ LET found == loadPersistedLogs(persisted, pconfig)
     IN lastRead' = [logs |-> found, returned |-> Len(found)]
  /\ lastOp' = Op("getPersistedLogs", "", NoSpan, 0, "")
  /\ UNCHANGED <<storeVars, subVars, stack, received, spanVars,
                 spanSubscribers, now, ctxVars, lastImport, lastExport, pageVars, regs, bridgeVars,
                 storageVars, burst, lastWrite>>

\* the typeof results the reader can meet in a parsed element
Invalid(kind, id, timestamp, level, message) ==
  Item(kind, id, timestamp, level, message, ForeignEvent(-1))

\* the elements a value under STORAGE_KEY may hold: events of this and of
\* other sessions as persistLogs() wrote them, null, a primitive, and
\* objects that lack one of the four fields or hold it with another type
StoredItems ==
  {Json(logs[i]) : i \in DOMAIN logs}
  \cup {Json(ForeignEvent(id)) : id \in ForeignIds}
  \cup {Invalid("null", "undefined", "undefined", "undefined", "undefined"),
        Invalid("primitive", "undefined", "undefined", "undefined",
                "undefined"),
        Invalid("object", "number", "number", "string", "string"),
        Invalid("object", "string", "undefined", "string", "string"),
        Invalid("object", "string", "number", "undefined", "string"),
        Invalid("object", "string", "number", "string", "object")}

\* the values found under STORAGE_KEY
StoredPayloads ==
  {NoPayload, Payload("garbage", <<>>), Payload("object", <<>>)}
  \cup {Payload("array", items) : items \in SeqsUpTo(StoredItems, MaxStored)}

\* the value that an earlier session or other code of the page left under
\* STORAGE_KEY of a storage nothing was written to yet
StorageHolds ==
  /\ stack = <<>>
  /\ persisted[pconfig.storage] = NoPayload
  /\ \E payload \in StoredPayloads :
        /\ persisted' = [persisted EXCEPT ![pconfig.storage] = payload]
        /\ lastOp' = Op("storage", "", NoSpan, 0, payload.kind)
  /\ UNCHANGED <<storeVars, subVars, stack, received, spanVars,
                 spanSubscribers, now, ctxVars, lastImport, lastExport, pageVars, regs, bridgeVars,
                 activeFlag, ioVars>>

\* The page ends without running any handler and is loaded again: every
\* module starts from its initial state, the two storages keep their content.
\* Log ids are not reused by the new session.
Crash ==
  /\ stack = <<>>
  /\ config' = DEFAULT_CONFIG
  /\ logs' = <<>>
  /\ entries' = <<>>
  /\ tokens' = {}
  /\ received' = [f \in Fns |-> <<>>]
  /\ spanObj' = <<>>
  /\ ended' = <<>>
  /\ spansMap' = {}
  /\ spanSubscribers' = {}
  /\ spanNotes' = <<>>
  /\ accepted' = <<>>
  /\ epochOK' = TRUE
  /\ globalContext' = Object({})
  /\ bound' = {}
  /\ lastContext' = UndefinedContext
  /\ lastImport' = <<>>
  /\ lastExport' = NoExport
  /\ requests' = <<>>
  /\ isInstalled' = FALSE
  /\ captureConfig' = CAPTURE_DEFAULT_CONFIG
  /\ originalOnError' = "null"
  /\ onerror' = "null"
  /\ lastError' = [logged |-> 0, chained |-> 0, returned |-> FALSE]
  /\ UNCHANGED peer
  /\ regs' = [f \in Fns |-> [live |-> 0, spent |-> 0]]
  /\ isEnabled' = FALSE
  /\ pconfig' = PERSISTENCE_DEFAULT_CONFIG
  /\ pendingLogs' = <<>>
  /\ debounceTimer' = FALSE
  /\ wasUncleanShutdown' = FALSE
  /\ unsubscribeFromLogger' = FALSE
  /\ unloadHooks' = FALSE
  /\ markerAt' = "none"
  /\ timers' = 0
  /\ burst' = 0
  /\ lastOp' = Op("crash", "", NoSpan, 0, "")
  /\ UNCHANGED <<nextId, stack, now, sessionId, storageVars, lastWrite,
                 lastRead>>

Outcomes == {"return", "throw", "log"}

\* the event store and its retention: logging, configuration, clear, import
Next ==
  \/ Log("info")
  \/ \E n \in 0..MaxCap : Configure([maxLogs |-> n])
  \/ \E b \in BOOLEAN : Configure([enabled |-> b])
  \/ Clear
  \/ \E foreign \in ForeignArrays : ImportLogs(foreign)
  \/ NotifyDone

Spec == Init /\ [][Next]_vars

\* the gate of log(): every level against every minLevel and enabled setting
NextGate ==
  \/ \E level \in Levels : Log(level)
  \/ \E level \in Levels : Configure([minLevel |-> level])
  \/ \E b \in BOOLEAN : Configure([enabled |-> b])
  \/ Configure([maxLogs |-> 0])
  \/ Subscribe(1)
  \/ Deliver("return")
  \/ NotifyDone

SpecGate == Init /\ [][NextGate]_vars

\* the fan-out: subscribers that return, throw or log from their callback
NextFanout ==
  \/ Log("info")
  \/ \E f \in Fns : Subscribe(f)
  \/ \E f \in Fns : Unsubscribe(f)
  \/ \E outcome \in Outcomes : Deliver(outcome)
  \/ NotifyDone

SpecFanout == Init /\ [][NextFanout]_vars

\* a logger with one log subscriber and one span subscriber registered
InitSpan ==
  /\ config = DEFAULT_CONFIG
  /\ logs = <<>>
  /\ nextId = 1
  /\ entries = <<1>>
  /\ tokens = {1}
  /\ stack = <<>>
  /\ received = [f \in Fns |-> <<>>]
  /\ spanObj = <<>>
  /\ ended = <<>>
  /\ spansMap = {}
  /\ spanSubscribers = {1}
  /\ spanNotes = <<>>
  /\ now = 0
  /\ accepted = <<>>
  /\ epochOK = TRUE
  /\ lastOp = Op("init", "", NoSpan, 0, "")
  /\ globalContext = Object({})
  /\ sessionId = "session"
  /\ bound = {}
  /\ lastContext = UndefinedContext
  /\ lastImport = <<>>
  /\ lastExport = NoExport
  /\ regs = [f \in Fns |-> [live |-> 0, spent |-> 0]]
  /\ InitPersistence
  /\ InitPage

\* the span lifecycle on top of the store
NextSpan ==
  \/ /\ Len(spanObj) < MaxSpans
     /\ \E parent \in {NoSpan} \cup DOMAIN spanObj :
          OpenSpan(parent, UndefinedContext)
  \/ \E h \in DOMAIN spanObj : SpanLog(h, "info")
  \/ \E h \in DOMAIN spanObj : SpanEnd(h)
  \/ \E h \in DOMAIN spanObj : \E arg \in FailArgs : SpanFail(h, arg)
  \/ \E b \in BOOLEAN : Configure([enabled |-> b])
  \/ Clear
  \/ Deliver("return")
  \/ NotifyDone

SpecSpan == InitSpan /\ [][NextSpan]_vars

\* the span lifecycle while the clock advances
NextTiming ==
  \/ /\ Len(spanObj) < MaxSpans
     /\ \E parent \in {NoSpan} \cup DOMAIN spanObj :
          OpenSpan(parent, UndefinedContext)
  \/ \E h \in DOMAIN spanObj : SpanEnd(h)
  \/ \E h \in DOMAIN spanObj : \E arg \in FailArgs : SpanFail(h, arg)
  \/ Tick
  \/ \E b \in BOOLEAN : Configure([enabled |-> b])
  \/ Deliver("return")
  \/ NotifyDone

SpecTiming == InitSpan /\ [][NextTiming]_vars

\* nested spans: handles open children with and without extra context and
\* are ended or failed in any order
NextNested ==
  \/ /\ Len(spanObj) < MaxNested
     /\ \E parent \in {NoSpan} \cup DOMAIN spanObj :
          \E context \in {UndefinedContext} \cup ContextInputs :
             OpenSpan(parent, context)
  \/ \E h \in DOMAIN spanObj : SpanEnd(h)
  \/ \E h \in DOMAIN spanObj : SpanFail(h, "none")

SpecNested == InitSpan /\ [][NextNested]_vars

\* filtered export of a store whose events differ in time, level and text:
\* the store is built first, then exported any number of times
NextExport ==
  \/ lastExport = NoExport /\ \E input \in LogInputs : LogText(input)
  \/ NotifyDone
  \/ Tick
  \/ \E options \in ExportInputs : ExportLogs(options)

SpecExport == Init /\ [][NextExport]_vars

\* what log() is called with
\* global context, bound loggers and span contexts
NextContext ==
  \/ Log("info")
  \/ \E context \in ContextInputs : SetGlobalContext(context)
  \/ \E context \in ContextInputs : UpdateGlobalContext(context)
  \/ ClearGlobalContext
  \/ \E context \in ContextInputs : WithContext(context)
  \/ \E b \in bound : BoundLog(b, "info")
  \/ Len(spanObj) < MaxSpans /\ OpenSpan(NoSpan, Object({<<"a", 1>>}))
  \/ \E h \in DOMAIN spanObj : SpanLog(h, "info")
  \/ NotifyDone

SpecContext == Init /\ [][NextContext]_vars

\* clear() among the state it must leave alone
NextClear ==
  \/ Log("info")
  \/ Clear
  \/ Subscribe(1)
  \/ SubscribeSpans(1)
  \/ \E context \in ContextInputs : SetGlobalContext(context)
  \/ \E b \in BOOLEAN : Configure([enabled |-> b])
  \/ Len(spanObj) < MaxSpans /\ OpenSpan(NoSpan, UndefinedContext)
  \/ Deliver("return")
  \/ NotifyDone

SpecClear == Init /\ [][NextClear]_vars

\* registrations and their tokens
NextTokens ==
  \/ Log("info")
  \/ \E f \in Fns : Register(f)
  \/ \E f \in Fns : \E fresh \in BOOLEAN : InvokeToken(f, fresh)
  \/ Deliver("return")
  \/ NotifyDone

SpecTokens == Init /\ [][NextTokens]_vars

\* every callback is registered before the first event
InitReentrant ==
  /\ config = DEFAULT_CONFIG
  /\ logs = <<>>
  /\ nextId = 1
  /\ entries = [i \in 1..MaxFns |-> i]
  /\ tokens = Fns
  /\ stack = <<>>
  /\ received = [f \in Fns |-> <<>>]
  /\ spanObj = <<>>
  /\ ended = <<>>
  /\ spansMap = {}
  /\ spanSubscribers = {}
  /\ spanNotes = <<>>
  /\ now = 0
  /\ accepted = <<>>
  /\ epochOK = TRUE
  /\ lastOp = Op("init", "", NoSpan, 0, "")
  /\ globalContext = Object({})
  /\ sessionId = "session"
  /\ bound = {}
  /\ lastContext = UndefinedContext
  /\ lastImport = <<>>
  /\ lastExport = NoExport
  /\ regs = [f \in Fns |-> [live |-> 0, spent |-> 0]]
  /\ InitPersistence
  /\ InitPage

\* Callback 1 changes the logger from inside its invocations (it logs,
\* subscribes, unsubscribes or clears); the other callbacks just return.
NextReentrant ==
  \/ Log("info")
  \/ Deliver("return")
  \/ Deliver("log") /\ lastOp'.fn = 1
  \/ \E kind \in Mutations : \E g \in Fns :
        DeliverMutating(kind, g) /\ lastOp'.fn = 1
  \/ NotifyDone

SpecReentrant == InitReentrant /\ [][NextReentrant]_vars

\* one fan-out at a time whose callbacks return, subscribe and unsubscribe
\* but never log
NextLoop ==
  \/ Log("info")
  \/ \E kind \in {"return", "subscribe", "unsubscribe", "resubscribe"} :
        \E g \in Fns : DeliverRenewing(kind, g)
  \/ NotifyDone

\* every callback that is invoked returns, and so does a notify() whose
\* iterator is exhausted
SpecLoop ==
  /\ InitReentrant
  /\ [][NextLoop]_vars
  /\ WF_vars(\E kind \in {"return", "subscribe", "unsubscribe", "resubscribe"} :
               \E g \in Fns : DeliverRenewing(kind, g))
  /\ WF_vars(NotifyDone)

\* the persistence bridge over the store
NextPersist ==
  \/ Log("info")
  \/ \E options \in EnableOptions : Enable(options)
  \/ Disable
  \/ DeliverPersist
  \/ NotifyDone
  \/ \E room \in Rooms : TimerFires(room)
  \/ \E room \in Rooms : HandleBeforeUnload(room)
  \/ Crash

SpecPersist == Init /\ [][NextPersist]_vars

\* durable writes under every trimming bound and every storage capacity,
\* of a store that is cleared now and then
NextQuota ==
  \/ Log("info")
  \/ Clear
  \/ \E options \in TrimOptions : Enable(options)
  \/ DeliverPersist
  \/ NotifyDone
  \/ \E room \in Rooms : TimerFires(room)
  \/ \E room \in Rooms : HandleBeforeUnload(room)

SpecQuota == Init /\ [][NextQuota]_vars

\* imports of events of an earlier session into a store that is mirrored
\* to a storage with room for every write
NextMirror ==
  \/ Log("info")
  \/ \E foreign \in SeqsUpTo({ForeignEvent(id) : id \in ForeignIds}, MaxImport) :
        ImportLogs(foreign)
  \/ Enable(<<>>)
  \/ DeliverPersist
  \/ NotifyDone
  \/ TimerFires(MaxRoom)
  \/ HandleBeforeUnload(MaxRoom)

SpecMirror == Init /\ [][NextMirror]_vars

\* requests intercepted by NetworkCapture
NextPage ==
  \/ /\ Len(requests) < MaxRequests
     /\ \E api \in {"fetch", "xhr"} : SendRequest(api)
  \/ \E r \in DOMAIN requests :
        \E result \in {[kind |-> "response", status |-> n] :
                          n \in {200, 304, 404, 500}}
                      \cup {[kind |-> k, status |-> 0] :
                              k \in {"error", "abort", "timeout"}} :
           Settle(r, result)
  \/ \E b \in BOOLEAN : Configure([enabled |-> b])

SpecPage == Init /\ [][NextPage]_vars

\* uncaught errors of a page that installs and uninstalls ErrorCapture
NextCapture ==
  \/ \E handler \in {"null", "page"} : AssignOnError(handler)
  \/ \E options \in {<<>>, [captureErrors |-> TRUE],
                       [captureErrors |-> FALSE]} : Install(options)
  \/ Uninstall
  \/ \E ret \in {"true", "false", "undefined", "throw"} : UncaughtError(ret)
  \/ NotifyDone
  \/ \E b \in BOOLEAN : Configure([enabled |-> b])

SpecCapture == Init /\ [][NextCapture]_vars

\* two sessions of one origin that persist to localStorage and end by
\* disable() or by a clean unload only
NextShared ==
  \/ Log("info")
  \/ Enable([storage |-> "local"])
  \/ Disable
  \/ PeerEnable
  \/ PeerShutdown
  \/ DeliverPersist
  \/ NotifyDone
  \/ TimerFires(MaxRoom)

SpecShared == Init /\ [][NextShared]_vars

\* reading the durable snapshot back, whatever the storage holds
NextRehydrate ==
  \/ Log("info")
  \/ NotifyDone
  \/ StorageHolds
  \/ Rehydrate
  \/ GetPersistedLogs

SpecRehydrate == Init /\ [][NextRehydrate]_vars

Messages == {StringMessage, HostileMessage}

DataItems ==
  {Prim, ErrorObj, ValidDate, InvalidDate, RegExpObj} \cup
  {Ref(n) : n \in DOMAIN Heap}

Payloads ==
  SeqsUpTo(DataItems, 1) \cup {<<Ref(1), Ref(1)>>, <<Ref(5), Ref(5)>>}

\* log() calls with arbitrary messages and payloads
NextPayload ==
  \/ \E message \in Messages : \E data \in Payloads : LogPayload(message, data)
  \/ \E b \in BOOLEAN : Configure([enabled |-> b])
  \/ Subscribe(1)
  \/ \E outcome \in {"return", "throw"} : Deliver(outcome)
  \/ NotifyDone

SpecPayload == Init /\ [][NextPayload]_vars

(* ------------------------------ properties ------------------------------ *)

TopFrame == stack[Len(stack)]

\* the notifications sent for span s, in order
NotesOf(notes, s) == SelectSeq(notes, LAMBDA n : n.id = s)

\* C1: while maxLogs has stayed at one value N >= 1 since the store was last
\* empty and only log() calls have filled it, getLogs() holds exactly the
\* min(k, N) most recent of the k accepted events, in call order.
C1_FifoRetention ==
  (epochOK /\ config.maxLogs >= 1) =>
    /\ Len(logs) = Min(Len(accepted), config.maxLogs)
    /\ IdSeq(logs) = LastN(accepted, config.maxLogs)

\* more events were accepted than the cap allows and the oldest were evicted
C1_Witness ==
  /\ epochOK
  /\ config.maxLogs >= 1
  /\ Len(accepted) > config.maxLogs
  /\ Len(logs) = config.maxLogs
  /\ logs[1].id > accepted[1]

\* C2: in every reachable state getLogs().length is at most the configured
\* maxLogs.
C2_HardCap == Len(logs) <= config.maxLogs

\* C3: a log(level) call appends an event and enters notify() for it exactly
\* when enabled is true and LOG_LEVEL_VALUES[level] >= LOG_LEVEL_VALUES[minLevel]
\* at call time; otherwise the store is unchanged and no subscriber is
\* invoked.  Every registered subscriber has been invoked with the event when
\* notify() returns.
C3_GateDecides ==
  [][/\ lastOp'.op = "log" =>
          IF /\ config.enabled
             /\ LOG_LEVEL_VALUES[lastOp'.level] >= LOG_LEVEL_VALUES[config.minLevel]
          THEN /\ nextId' = nextId + 1
               /\ Len(stack') = Len(stack) + 1
               /\ stack'[Len(stack')].ev.id = nextId
               /\ stack'[Len(stack')].ev.level = lastOp'.level
               /\ config.maxLogs >= 1 => logs'[Len(logs')] = stack'[Len(stack')].ev
               /\ received' = received
          ELSE /\ logs' = logs
               /\ nextId' = nextId
               /\ stack' = stack
               /\ received' = received
     /\ Len(stack') < Len(stack) =>
          \A f \in Alive(entries) : Count(received[f], TopFrame.ev.id) = 1
    ]_vars

\* a call below minLevel was discarded while the store held events and a
\* subscriber was registered
C3_Witness ==
  /\ lastOp.op = "log"
  /\ config.enabled
  /\ LOG_LEVEL_VALUES[lastOp.level] < LOG_LEVEL_VALUES[config.minLevel]
  /\ logs # <<>>
  /\ Alive(entries) # {}

\* C4: when subscribers throw, the notify() loop still invokes every
\* registered subscriber exactly once for the event, log() returns, the
\* throwing subscribers stay registered and the event stays stored.
C4_ThrowIsolated ==
  [][/\ Len(stack') < Len(stack) =>
          \A f \in TopFrame.reg \cap Alive(entries) :
             Count(received[f], TopFrame.ev.id) = 1
     /\ (lastOp'.op = "deliver" /\ lastOp'.out = "throw") =>
          /\ logs' = logs
          /\ entries' = entries
          /\ Len(stack') = Len(stack)
    ]_vars

\* a subscriber was invoked and returned after another one threw in the
\* same notify() loop
C4_Witness ==
  /\ stack # <<>>
  /\ TopFrame.threw # {}
  /\ lastOp.op = "deliver"
  /\ lastOp.out = "return"
  /\ lastOp.fn \notin TopFrame.threw
  /\ Count(received[lastOp.fn], TopFrame.ev.id) = 1

\* C5: every subscriber receives the events in the order in which they were
\* appended to the store (ids are handed out in append order).
C5_DeliveredInOrder ==
  \A f \in Fns : \A i, j \in DOMAIN received[f] :
     i < j => received[f][i] < received[f][j]

\* C6: every log() call that passes the gate appends exactly one event and
\* enters notify() for it, whatever the message and the data.
C6_PayloadNeverDropsEvent ==
  [][(lastOp'.op = "payload" /\ PassesGate(config, "info")) =>
        /\ nextId' = nextId + 1
        /\ Len(stack') = Len(stack) + 1
    ]_vars

\* C7: a span starts running; its status changes at most once, to success
\* by end() or to error by fail(), and never changes once terminal.
C7_SpanStatusOneWay ==
  [][/\ \A s \in DOMAIN spanObj' \ DOMAIN spanObj :
          spanObj'[s].status = "running"
     /\ \A s \in DOMAIN spanObj :
          /\ spanObj[s].status # "running" =>
               spanObj'[s].status = spanObj[s].status
          /\ spanObj'[s].status # spanObj[s].status =>
               /\ lastOp'.span = s
               /\ \/ spanObj'[s].status = "success" /\ lastOp'.op = "end"
                  \/ /\ spanObj'[s].status = "error"
                     /\ lastOp'.op \in {"fail", "notifyDone"}
    ]_vars

\* end() was called on a span that had failed
C7_Witness ==
  /\ lastOp.op = "end"
  /\ spanObj[lastOp.span].status = "error"

\* C8: after the first terminal call, further end() / fail() calls leave
\* status, endTime and duration as they are and notify nobody: the span has
\* had its two notifications, running and terminal.
C8_FinishIdempotent ==
  [][\A s \in DOMAIN spanObj : ended[s] =>
        /\ spanObj'[s].status = spanObj[s].status
        /\ spanObj'[s].endTime = spanObj[s].endTime
        /\ spanObj'[s].duration = spanObj[s].duration
        /\ NotesOf(spanNotes', s) = NotesOf(spanNotes, s)
        /\ Len(NotesOf(spanNotes, s)) = 2
        /\ NotesOf(spanNotes, s)[1].status = "running"
        /\ NotesOf(spanNotes, s)[2].status = spanObj[s].status
    ]_vars

\* a terminal call was made on a span that had ended at an earlier time
C8_Witness ==
  /\ lastOp.op \in {"end", "fail"}
  /\ spanObj[lastOp.span].status # "running"
  /\ spanObj[lastOp.span].endTime < now

\* C9: once a span is terminal the logging methods of its handle do
\* nothing, so every event that a handle attributes to a span is created
\* while that span is running.
C9_EndedHandleSilent ==
  [][/\ (lastOp'.op \in {"spanLog", "fail"} /\ ended[lastOp'.span]) =>
          /\ logs' = logs
          /\ nextId' = nextId
          /\ stack' = stack
          /\ received' = received
     /\ Len(stack') > Len(stack) =>
          LET ev == stack'[Len(stack')].ev
          IN ev.spanId # NoSpan =>
               /\ spanObj[ev.spanId].status = "running"
               /\ ~ended[ev.spanId]
    ]_vars

\* a handle logged after its span had ended, with events of that span in
\* the store and a subscriber registered
C9_Witness ==
  /\ lastOp.op = "spanLog"
  /\ ended[lastOp.span]
  /\ \E i \in DOMAIN logs : logs[i].spanId = lastOp.span
  /\ Alive(entries) # {}

C11_RunningNotifiedFirst ==
  [][/\ Len(stack') > Len(stack) =>
          LET ev == stack'[Len(stack')].ev
          IN ev.spanId # NoSpan =>
               /\ NotesOf(spanNotes, ev.spanId) # <<>>
               /\ NotesOf(spanNotes, ev.spanId)[1].status = "running"
     /\ lastOp'.op = "deliver" =>
          (TopFrame.ev.spanId # NoSpan =>
             /\ NotesOf(spanNotes, TopFrame.ev.spanId) # <<>>
             /\ NotesOf(spanNotes, TopFrame.ev.spanId)[1].status = "running")
     /\ Len(spanNotes') > Len(spanNotes) =>
          LET n == spanNotes'[Len(spanNotes')]
          IN /\ Len(spanNotes') = Len(spanNotes) + 1
             /\ n.to = spanSubscribers
             /\ IF n.status = "running"
                THEN /\ NotesOf(spanNotes, n.id) = <<>>
                     /\ \A i \in DOMAIN logs : logs[i].spanId # n.id
                     /\ \A i \in DOMAIN stack : stack[i].ev.spanId # n.id
                ELSE /\ NotesOf(spanNotes, n.id) # <<>>
                     /\ NotesOf(spanNotes, n.id)[1].status = "running"
    ]_vars

\* a span was announced, logged an event that a subscriber received, and
\* then reached a terminal state
C11_Witness ==
  \E s \in DOMAIN spanObj :
     /\ Len(NotesOf(spanNotes, s)) = 2
     /\ NotesOf(spanNotes, s)[1].to # {}
     /\ \E i \in DOMAIN logs :
          /\ logs[i].spanId = s
          /\ \E f \in Fns : Count(received[f], logs[i].id) = 1

\* the keys of a set of key/value pairs
KeysOf(kv) == {p[1] : p \in kv}

\* the context argument the last logging call handed to LoggerCore.log
CallContext ==
  CASE lastOp.op = "boundLog" -> lastContext
    [] lastOp.op = "spanLog" -> spanObj[lastOp.span].context
    [] OTHER -> UndefinedContext

\* C12: the context stored on an event holds every pair of the bound-logger
\* or span context of the call, every pair of the global context (as of the
\* call) whose key the bound context does not have, and nothing else; the
\* context of an event that stays in the store never changes afterwards.
C12_ContextMerged ==
  [][/\ (lastOp'.op \in {"log", "boundLog", "spanLog"}
         /\ Len(stack') > Len(stack)) =>
          LET ev == stack'[Len(stack')].ev
              b == CallContext'.kv
              g == globalContext.kv
          IN /\ ev = logs'[Len(logs')]
             /\ b \subseteq ev.context.kv
             /\ \A p \in g : p[1] \notin KeysOf(b) => p \in ev.context.kv
             /\ ev.context.kv \subseteq b \cup g
     /\ \A i \in DOMAIN logs : \A j \in DOMAIN logs' :
          logs[i].id = logs'[j].id => logs[i].context = logs'[j].context
    ]_vars

\* a bound logger created with { a: 1 } logged before and after the global
\* context became { a: 2, b: 2 }: its second event has the bound a and the
\* global b, its first event still has the bound context alone
C12_Witness ==
  /\ lastOp.op = "boundLog"
  /\ lastContext = Object({<<"a", 1>>})
  /\ globalContext = Object({<<"a", 2>>, <<"b", 2>>})
  /\ \E i, j \in DOMAIN logs :
       /\ i < j
       /\ logs[i].context = Object({<<"a", 1>>})
       /\ logs[j].context = Object({<<"a", 1>>, <<"b", 2>>})

\* no two events of ls share an id
DistinctIds(ls) == \A i, j \in DOMAIN ls : ls[i].id = ls[j].id => i = j

\* C13: importLogs deduplicates by id: when no two stored events share an id
\* before the call, no two stored events share an id after it, whatever the
\* foreign array is.
C13_ImportDeduplicates ==
  [][(lastOp'.op = "import" /\ DistinctIds(logs)) => DistinctIds(logs')]_vars

\* C14: an importLogs(X) call that directly follows an importLogs(X) call
\* with the same array leaves the store as the first call left it.
C14_ImportIdempotent ==
  [][(lastOp'.op = "import" /\ lastOp'.out = "repeat") => logs' = logs]_vars

\* the same array was imported twice in a row into a store whose cap had
\* evicted one of its events after the first call
C14_Witness ==
  /\ lastOp.op = "import"
  /\ lastOp.out = "repeat"
  /\ logs # <<>>
  /\ \E i \in DOMAIN lastImport : lastImport[i].id \notin Ids(logs)

\* the foreign events whose id is not stored yet, in foreign order
NotYetStored(foreign, ls) ==
  SelectSeq(foreign, LAMBDA l : \A i \in DOMAIN ls : ls[i].id # l.id)

\* C15: after importLogs(foreign) the store is the last maxLogs elements of
\* the foreign events whose id was not stored, in foreign order, followed by
\* the previously stored events in their order.
C15_ImportPrepends ==
  [][lastOp'.op = "import" =>
       logs' = LastN(NotYetStored(lastImport', logs) \o logs, config.maxLogs)
    ]_vars

\* C16: clear() empties the log sequence and the span map and leaves the
\* session id, the global context, the configuration and both subscriber
\* registries as they are; a notify() loop still invokes every registered
\* subscriber once, also for events logged after a clear().
C16_ClearFrame ==
  [][/\ lastOp'.op = "clear" =>
          /\ logs' = <<>>
          /\ spansMap' = {}
          /\ sessionId' = sessionId
          /\ globalContext' = globalContext
          /\ config' = config
          /\ entries' = entries
          /\ spanSubscribers' = spanSubscribers
     /\ Len(stack') < Len(stack) =>
          \A f \in Alive(entries) : Count(received[f], TopFrame.ev.id) = 1
    ]_vars

\* a subscriber registered before a clear() received the event logged after
\* it; the clear() removed the first event and the span from a logger that
\* had a global context and a span subscriber
C16_Witness ==
  /\ Ids(logs) = {2}
  /\ config.maxLogs >= 2
  /\ received[1] = <<1, 2>>
  /\ spanObj # <<>>
  /\ spansMap = {}
  /\ spanSubscribers # {}
  /\ globalContext # Object({})

\* C17: invoking a token removes the registration that produced it and no
\* other: a callback that has a registration whose own token was never
\* invoked is still in the registry.
C17_TokenRemovesOwnRegistration ==
  \A f \in Fns : regs[f].live > 0 => f \in Alive(entries)

C20_DisableCleansUp ==
  [][(lastOp'.op = "disable" /\ isEnabled) =>
       /\ ~isEnabled'
       /\ ~debounceTimer'
       /\ PersistFn \notin Alive(entries')
       /\ ~activeFlag'[markerAt]
    ]_vars

\* C21: While persistence is enabled at most one debounce timer is pending.
\* A log notification writes nothing, captures the whole store and leaves
\* exactly one timer armed; until that timer expires nothing but a further
\* notification replaces the captured snapshot; the expiry answers the whole
\* burst of notifications with one write, the most recent maxPersisted
\* events of the snapshot captured by the last of them, stored when the
\* storage has room for it, and leaves no timer behind.
C21_DebouncedWrite ==
  [][/\ timers' <= 1
     /\ (persisted' # persisted => lastOp'.op \in {"timer", "unload"})
     /\ (lastOp'.op = "handleNewLog" /\ isEnabled
           => /\ timers' = 1
              /\ burst' = burst + 1
              /\ pendingLogs' = logs
              /\ lastWrite' = lastWrite)
     /\ (timers = 1 /\ lastOp'.op \in {"log", "enable", "notifyDone"}
           => /\ timers' = 1
              /\ burst' = burst
              /\ pendingLogs' = pendingLogs)
     /\ (lastOp'.op = "timer"
           => /\ burst >= 1
              /\ timers' = 0
              /\ burst' = 0
              /\ lastWrite'.burst = burst
              /\ lastWrite'.tried[1] = LastN(pendingLogs, pconfig.maxPersisted)
              /\ (lastWrite'.ok /\ Len(lastWrite'.tried) = 1
                   => persisted'[pconfig.storage]
                        = Serialized(LastN(pendingLogs, pconfig.maxPersisted))))
    ]_vars

\* a burst of two notifications was answered by one expiry that stored the
\* snapshot of the second
C21_Witness ==
  /\ lastOp.op = "timer"
  /\ lastWrite.burst = 2
  /\ lastWrite.ok
  /\ Len(lastWrite.tried) = 1
  /\ Len(pendingLogs) = 2
  /\ persisted[pconfig.storage] = Serialized(pendingLogs)

\* C22: every durable write stores at most maxPersisted events, the most
\* recent events of the snapshot in their order, for every configured
\* maxPersisted >= 0.
C22_WriteTrimmed ==
  [][lastOp'.op \in {"timer", "unload"} /\ persisted' # persisted
       => LET array == persisted'[pconfig.storage].items
          IN /\ Len(array) <= pconfig.maxPersisted
             /\ \E n \in 0..pconfig.maxPersisted :
                   array = Serialized(LastN(pendingLogs, n)).items
    ]_vars

\* C23: a durable write that fails for lack of capacity is retried exactly
\* once, with at most floor(maxPersisted/2) most recent events and never more
\* than the first attempt held; when the retry fails too, nothing more is
\* attempted and the store and the persisted data stay as they were.
C23_QuotaRetry ==
  [][lastOp'.op \in {"timer", "unload"} /\ lastWrite' # lastWrite
       => LET tried == lastWrite'.tried
          IN /\ Len(tried) \in {1, 2}
             /\ (Len(tried) = 2
                  => /\ Len(tried[2]) <= pconfig.maxPersisted \div 2
                     /\ Len(tried[2]) <= Len(tried[1])
                     /\ tried[2] = LastN(pendingLogs, Len(tried[2])))
             /\ (~lastWrite'.ok => persisted' = persisted)
             /\ logs' = logs
    ]_vars

\* C24: the teardown handler leaves no debounce timer pending, flushes the
\* captured snapshot once (the storage holds its most recent maxPersisted
\* events when there is room), and removes the liveness marker the session
\* wrote, so that the next enable() finds none; a second run right after the
\* first leaves the same durable state when both writes found room.
C24_TeardownClean ==
  [][lastOp'.op = "unload"
       => /\ timers' = 0
          /\ ~debounceTimer'
          /\ (Len(pendingLogs) > 0
               => /\ lastWrite'.tried # <<>>
                  /\ lastWrite'.tried[1]
                       = LastN(pendingLogs, pconfig.maxPersisted)
                  /\ (lastWrite'.ok /\ Len(lastWrite'.tried) = 1
                       => persisted'[pconfig.storage]
                            = Serialized(lastWrite'.tried[1])))
          /\ (markerAt # "none" => ~activeFlag'[markerAt])
          /\ (lastOp.op = "unload" /\ lastWrite.ok /\ lastWrite'.ok
                 /\ Len(lastWrite.tried) = Len(lastWrite'.tried)
               => <<activeFlag, persisted>>' = <<activeFlag, persisted>>)
    ]_vars

\* the stored elements that are non-null objects with a string id, a numeric
\* timestamp, a string level and a string message, in stored order
ValidStored(payload) ==
  IF payload.kind # "array" THEN <<>>
  ELSE LET kept == SelectSeq(payload.items,
                     LAMBDA item : /\ item.kind = "object"
                                   /\ item.id = "string"
                                   /\ item.timestamp = "number"
                                   /\ item.level = "string"
                                   /\ item.message = "string")
       IN [i \in DOMAIN kept |-> kept[i].ev]

C26_ReadValidated ==
  [][lastOp'.op \in {"rehydrate", "getPersistedLogs"}
       => /\ lastRead'.logs = ValidStored(persisted[pconfig.storage])
          /\ (persisted[pconfig.storage].kind # "array"
               => lastRead'.logs = <<>> /\ logs' = logs)
          /\ (lastOp'.op = "getPersistedLogs" => logs' = logs)
    ]_vars

\* getPersistedLogs() returned the one valid entry of a stored array whose
\* other entry lacks the numeric timestamp
C26_Witness ==
  /\ lastOp.op = "getPersistedLogs"
  /\ Len(persisted[pconfig.storage].items) = 2
  /\ persisted[pconfig.storage].items[1].timestamp = "undefined"
  /\ Len(lastRead.logs) = 1
  /\ lastRead.logs[1] = persisted[pconfig.storage].items[2].ev
  /\ logs # <<>>

\* C27: exportLogs(options) in structured mode returns exactly the stored
\* events, in store order, that satisfy every supplied filter: timestamp >=
\* now - lastMs, level in levels, search found case-insensitively in the
\* message or in the serialized data; an omitted or empty filter (lastMs 0,
\* no levels, empty search) excludes nothing; the store is not modified.
C27_ExportFiltered ==
  [][lastOp'.op = "export"
       => LET o == lastExport'.options
              wanted == {o.levels.list[i] : i \in DOMAIN o.levels.list}
              part == ToLowerCase(o.search.text)
              Passes(log) ==
                /\ (o.lastMs # Undefined /\ o.lastMs # 0
                    => log.timestamp >= now - o.lastMs)
                /\ (o.levels.given /\ wanted # {} => log.level \in wanted)
                /\ (o.search.given /\ part # <<>>
                    => \/ Includes(ToLowerCase(log.message), part)
                       \/ Includes(ToLowerCase(Stringify(log.data).text),
                                   part))
          IN /\ lastExport'.out = SelectSeq(logs, Passes)
             /\ logs' = logs
    ]_vars

\* the data items of the event the last step entered notify() for
NewEventData == stack'[Len(stack')].ev.data

\* C28: when a plain object has a key whose access throws, the log call
\* stores an event whose clone of that object keeps every key: a sentinel
\* for the throwing key and the normalized value for every other key.
C28_ThrowingKeyIsolated ==
  [][\A message \in Messages : \A data \in Payloads :
        \A i \in DOMAIN data :
           (/\ LogPayload(message, data)
            /\ PassesGate(config, "info")
            /\ message = StringMessage
            /\ data[i].t = "ref"
            /\ Heap[data[i].n].kind = "obj"
            /\ \E k \in DOMAIN Heap[data[i].n].fields :
                  Heap[data[i].n].fields[k].throws)
           => /\ Len(stack') = Len(stack) + 1
              /\ LET fields == Heap[data[i].n].fields
                     out == NewEventData[i]
                 IN /\ out.t = "obj"
                    /\ DOMAIN out.kids = DOMAIN fields
                    /\ \A k \in DOMAIN fields :
                          /\ out.kids[k].key = fields[k].key
                          /\ IF fields[k].throws
                             THEN out.kids[k].val.t = "sentinel"
                             ELSE out.kids[k].val
                                    = safeClone(fields[k].val, {}).out
    ]_vars

\* the objects none of whose members throws when it is read or converted
PlainObjects ==
  {n \in DOMAIN Heap :
     \A k \in DOMAIN Heap[n].fields :
        /\ ~Heap[n].fields[k].throws
        /\ Heap[n].fields[k].val # InvalidDate}

RECURSIVE PathClone(_, _)
\* the normal form in which a reference is replaced exactly when it points
\* to an object on the path from the root to it
PathClone(value, path) ==
  IF value.t # "ref" THEN safeClone(value, {}).out
  ELSE IF value.n \in path
  THEN Out("sentinel", "[Circular Reference]", <<>>)
  ELSE Out(Heap[value.n].kind, "",
           [k \in DOMAIN Heap[value.n].fields |->
              [key |-> Heap[value.n].fields[k].key,
               val |-> PathClone(Heap[value.n].fields[k].val,
                                 path \cup {value.n})]])

\* C29: normalization replaces a reference by "[Circular Reference]"
\* exactly when it points to an object on the path from the root; an object
\* reachable twice without a cycle is normalized in full each time, and
\* neither another data item nor an earlier log() call changes the result.
C29_CircularOnlyOnCycle ==
  [][\A message \in Messages : \A data \in Payloads :
        (/\ LogPayload(message, data)
         /\ PassesGate(config, "info")
         /\ message = StringMessage
         /\ \A i \in DOMAIN data :
               data[i].t = "ref" /\ data[i].n \in PlainObjects)
        => /\ Len(stack') = Len(stack) + 1
           /\ \A i \in DOMAIN data :
                 NewEventData[i] = PathClone(data[i], {})
    ]_vars

\* C30: fail(arg) with an error or a message on a running span stores one
\* error-level event carrying the span's id when the gate lets it pass, with
\* the span still running and no span subscriber notified; the span moves
\* to status error, with one notification of the span subscribers, when
\* that log call is over (at once when the gate stops the event).  fail(arg)
\* on a terminal span stores no event and notifies nobody.
C30_FailLogsThenFinishes ==
  [][/\ (lastOp'.op = "fail" /\ lastOp'.out # "none" /\ ~ended[lastOp'.span])
          => LET h == lastOp'.span
             IN IF PassesGate(config, "error")
                THEN /\ nextId' = nextId + 1
                     /\ Len(stack') = 1
                     /\ stack'[1].ev.level = "error"
                     /\ stack'[1].ev.spanId = h
                     /\ stack'[1].ev.id = nextId
                     /\ logs' = LastN(Append(logs, stack'[1].ev),
                                      config.maxLogs)
                     /\ spanObj'[h].status = "running"
                     /\ ~ended'[h]
                     /\ spanNotes' = spanNotes
                ELSE /\ nextId' = nextId
                     /\ logs' = logs
                     /\ spanObj'[h].status = "error"
                     /\ Len(spanNotes') = Len(spanNotes) + 1
     /\ (lastOp'.op = "notifyDone" /\ lastOp'.span # NoSpan)
          => LET h == lastOp'.span
             IN /\ stack[Len(stack)].ev.spanId = h
                /\ stack[Len(stack)].ev.level = "error"
                /\ spanObj[h].status = "running"
                /\ spanObj'[h].status = "error"
                /\ ended'[h]
                /\ logs' = logs
                /\ Len(spanNotes') = Len(spanNotes) + 1
                /\ spanNotes'[Len(spanNotes')].id = h
                /\ spanNotes'[Len(spanNotes')].status = "error"
                /\ spanNotes'[Len(spanNotes')].to = spanSubscribers
     /\ (lastOp'.op = "fail" /\ ended[lastOp'.span])
          => /\ logs' = logs
             /\ nextId' = nextId
             /\ stack' = stack
             /\ spanObj' = spanObj
             /\ spanNotes' = spanNotes
    ]_vars

\* C31: handle.span(childName, extra) creates a running span whose parentId
\* is the handle's span id and whose context holds every pair of extra, every
\* pair of the parent's context whose key extra does not have, and nothing
\* else; no span's parentId ever changes; ending or failing a span changes the
\* status of no other span.
C31_ChildSpan ==
  [][/\ \A parent \in DOMAIN spanObj :
          \A extra \in {UndefinedContext} \cup ContextInputs :
             OpenSpan(parent, extra) =>
               LET child == spanObj'[Len(spanObj')]
                   own == spanObj[parent].context.kv
               IN /\ Len(spanObj') = Len(spanObj) + 1
                  /\ child.status = "running"
                  /\ child.parentId = spanObj[parent].id
                  /\ child.id # spanObj[parent].id
                  /\ extra.kv \subseteq child.context.kv
                  /\ \A p \in own :
                       p[1] \notin KeysOf(extra.kv) => p \in child.context.kv
                  /\ child.context.kv \subseteq own \cup extra.kv
                  /\ spanObj'[parent] = spanObj[parent]
     /\ \A h \in DOMAIN spanObj :
          /\ h \in DOMAIN spanObj'
          /\ spanObj'[h].parentId = spanObj[h].parentId
     /\ (lastOp'.op \in {"end", "fail"}) =>
          \A k \in DOMAIN spanObj :
             k # lastOp'.span => spanObj'[k].status = spanObj[k].status
    ]_vars

\* a child opened with { a: 2, b: 2 } under a parent with { a: 1 } has the
\* extra a and b; the parent was then failed and the child is still running
C31_Witness ==
  /\ lastOp.op = "fail"
  /\ \E parent, child \in DOMAIN spanObj :
       /\ spanObj[child].parentId = parent
       /\ spanObj[parent].context = Object({<<"a", 1>>})
       /\ spanObj[child].context = Object({<<"a", 2>>, <<"b", 2>>})
       /\ spanObj[parent].status = "error"
       /\ spanObj[child].status = "running"
       /\ lastOp.span = parent

\* C32: importLogs() starts no fan-out, invokes no log subscriber, arms no
\* timer and writes nothing; the snapshot a durable write takes its events
\* from is replaced only by the persistence subscriber during the fan-out of
\* a log() call, with the whole store of that moment, and a durable write
\* stores events of that snapshot only.
C32_ImportSchedulesNothing ==
  [][/\ (lastOp'.op = "import"
           => /\ stack' = <<>>
              /\ received' = received
              /\ pendingLogs' = pendingLogs
              /\ debounceTimer' = debounceTimer
              /\ timers' = timers
              /\ burst' = burst
              /\ persisted' = persisted)
     /\ (pendingLogs' # pendingLogs
           => /\ lastOp'.op = "handleNewLog"
              /\ stack # <<>>
              /\ TopFrame.ev.id = nextId - 1
              /\ pendingLogs' = logs)
     /\ (persisted' # persisted
           => /\ lastOp'.op \in {"timer", "unload"}
              /\ \A i \in DOMAIN persisted'[pconfig.storage].items :
                    \E j \in DOMAIN pendingLogs :
                       persisted'[pconfig.storage].items[i]
                         = Json(pendingLogs[j]))
    ]_vars

\* an event imported while a timer was pending is missing from the write of
\* that timer and in the store
C32_Witness ==
  /\ lastOp.op = "timer"
  /\ lastWrite.ok
  /\ \E i \in DOMAIN logs :
       /\ logs[i].id \in ForeignIds
       /\ \A j \in DOMAIN persisted[pconfig.storage].items :
            persisted[pconfig.storage].items[j] # Json(logs[i])
  /\ persisted[pconfig.storage].items # <<>>

\* C33: the span of an intercepted fetch or XHR request is running until
\* the request settles; the step that settles it moves the span to a terminal
\* state with one notification, to success if and only if a response with a
\* status from 200 to 399 arrived, to error for every other status and for a
\* network failure, an abort or a timeout; a settled request's span never
\* changes again.
C33_RequestSpanSettles ==
  [][\A r \in DOMAIN requests' :
        LET h == requests'[r].span
            result == requests'[r].result
        IN /\ (result.kind = "pending") = (spanObj'[h].status = "running")
           /\ (r \in DOMAIN requests /\ requests[r].result.kind # "pending")
                 => /\ spanObj'[h] = spanObj[h]
                    /\ NotesOf(spanNotes', h) = NotesOf(spanNotes, h)
           /\ (r \in DOMAIN requests /\ requests[r].result.kind = "pending"
                   /\ result.kind # "pending")
                 => /\ Len(NotesOf(spanNotes', h)) = 2
                    /\ (spanObj'[h].status = "success")
                         = (result.kind = "response" /\ result.status >= 200
                              /\ result.status <= 399)
                    /\ spanObj'[h].status \in {"success", "error"}
    ]_vars

\* C34: install() on a page without ErrorCapture keeps the handler found in
\* window.onerror, and uninstall() puts that handler back; while ErrorCapture
\* is installed every uncaught error stores exactly one error-level event and
\* calls the kept handler exactly once when there is one, and window.onerror
\* returns what that handler returned, false when there is none or it threw.
C34_ChainsAndRestores ==
  [][/\ (lastOp'.op = "install" /\ ~isInstalled)
          => originalOnError' = onerror
     /\ (isInstalled /\ isInstalled') => originalOnError' = originalOnError
     /\ (lastOp'.op = "uninstall" /\ isInstalled)
          => onerror' = originalOnError
     /\ (lastOp'.op = "onerror" /\ isInstalled)
          => /\ lastError'.logged = 1
             /\ Len(stack') = 1
             /\ stack'[1].ev.level = "error"
             /\ stack'[1].ev = logs'[Len(logs')]
             /\ lastError'.chained = (IF originalOnError = "null" THEN 0 ELSE 1)
             /\ lastError'.returned
                  = (originalOnError # "null" /\ lastOp'.out = "true")
    ]_vars

\* C35: when every invoked callback returns and none of them logs, every
\* fan-out that has begun comes to its end: log() returns.
C35_FanoutTerminates == (stack # <<>>) ~> (stack = <<>>)

\* C36: with maxLogs = 0 an accepted log() leaves the store empty, whatever it
\* held before, and the store stays empty while the event is fanned out; when
\* notify() returns, every callback that was subscribed at the call has been
\* invoked exactly once with the event.
C36_ZeroCapStillNotifies ==
  [][/\ (lastOp'.op \in {"log", "deliver"} /\ Len(stack') > Len(stack)
           /\ config.maxLogs = 0)
          => /\ logs' = <<>>
             /\ stack'[Len(stack')].ev.id = nextId
     /\ (stack # <<>> /\ config.maxLogs = 0) => logs' = <<>>
     /\ (lastOp'.op = "notifyDone" /\ config.maxLogs = 0)
          => \A f \in TopFrame.reg : Count(received[f], TopFrame.ev.id) = 1
    ]_vars

\* a store configured to maxLogs = 0 while it held an event is empty after a
\* log() whose event the subscriber, registered in between, was invoked with
C36_Witness ==
  /\ lastOp.op = "notifyDone"
  /\ config.maxLogs = 0
  /\ logs = <<>>
  /\ nextId = 3
  /\ Alive(entries) = {1}
  /\ Count(received[1], 2) = 1
  /\ Count(received[1], 1) = 0

\* C37: a span that clear() removed from the spans map (its handle exists,
\* its id is no key of the map) is in the map in no later state, whatever is
\* done with its handle.
C37_ClearedSpanStaysGone ==
  [][\A h \in DOMAIN spanObj : h \notin spansMap => h \notin spansMap']_vars

\* C38: while persistence is enabled (isActive() is true), the marker that
\* enable() wrote is present in the storage it was written to.
C38_MarkerWhileActive == isEnabled => activeFlag[markerAt]

\* C39: while no session ends without its teardown or disable(), no session
\* sharing localStorage reports a crash, and the marker is in localStorage
\* for as long as one of the sessions is running with persistence enabled.
C39_SharedMarker ==
  /\ ~wasUncleanShutdown
  /\ ~peer.wasUncleanShutdown
  /\ peer.isEnabled => activeFlag["local"]
  /\ isEnabled => activeFlag["local"]

\* C40: a durable write (debounce expiry or teardown flush) stores only
\* events the store holds when the write is made, so none that an earlier
\* clear() removed.
C40_NoWriteOfClearedEvents ==
  [][(lastOp'.op \in {"timer", "unload"} /\ persisted' # persisted)
       => \A i \in DOMAIN persisted'[pconfig.storage].items :
             \E j \in DOMAIN logs :
                persisted'[pconfig.storage].items[i] = Json(logs[j])
    ]_vars

====
